---- MODULE Spec2Model ----
(***************************************************************************)
(* Model of the agent orchestration core of gemini-slknight:               *)
(*   backend/src/agents/orchestrator.ts  (orchestrate, evaluateQuality,    *)
(*       updateHealth, the checklist, the downstream trigger handlers)     *)
(*   backend/src/agents/agentBus.ts      (src/unnamed/part_009)            *)
(*   backend/src/utils/cleanJSON.ts      (src/unnamed/part_008)            *)
(*                                                                         *)
(* Node runs the code on one thread: a step of the model is the code that  *)
(* runs between two suspension points (an await of an external call).      *)
(* External calls (the unit of work, the judge model, a dynamic import)    *)
(* complete in any order, with any of their outcomes.                      *)
(* Wall-clock time is the logical clock `now`, which ticks in every step;  *)
(* the measured duration of a call is an input of the step that ends it.   *)
(* Math.round is exact round-half-up; IEEE rounding of the quotient is not *)
(* modelled (it first differs from the exact value at 23 of 40 calls).     *)
(***************************************************************************)
EXTENDS Integers, Sequences, FiniteSets, TLC

\* ------------------------------------------------------------------ bounds
MaxCalls == 3          \* orchestrate calls started by controllers
MaxRetriesBound == 2   \* largest maxRetries option a caller passes
MaxEmits == 3          \* emitAgentEvent calls made by controllers
MaxCompletes == 1      \* completeChain calls made by controllers
MaxChains == 2         \* chain ids controllers use
MaxSubs == 2           \* subscribe calls
MaxSessions == 1       \* checklists while the bus is followed
MaxOverlap == 2        \* orchestrate calls that run concurrently
MaxBusEmits == 1       \* emitAgentEvent calls while subscribers come and go
MaxRoots == 2          \* chains whose handlers run at the same time
MaxLoneSubs == 1       \* subscribe calls while controllers call completeChain
MaxCreates == 2        \* POST /checklist requests
MaxPatches == 1        \* PATCH /checklist/:sessionId/:itemId requests

\* ------------------------------------------------------- program constants
MAX_LOG_SIZE == 100
MAX_CHAIN_DEPTH == 3
MAX_EVENT_LOG == 200
MAX_RECENT_CORRECTIONS == 5
DEFAULT_MAX_RETRIES == 1
SCORE_SKIPPED == 80
SCORE_UNPARSABLE == 70
SCORE_EVALUATOR_ERROR == 65

AGENT_NAMES ==
    {"freedom", "watchdog", "coach", "simulator", "auditor",
     "vision", "letter", "debate", "call-script", "future-self"}

\* JavaScript's null and undefined, where a string is expected
NULL == "<null>"
UNDEF == "<undefined>"
\* JavaScript truthiness of a string-or-undefined value
Truthy(s) == s # UNDEF /\ s # NULL /\ s # ""

\* Math.round(p / q) for p >= 0, q > 0: round half up
Round(p, q) == (2 * p + q) \div (2 * q)

\* A capped push that refuses the new element when the array is full
PushCapped_KeepsOldest(s, e, cap) ==
    IF Len(s) >= cap THEN s ELSE Append(s, e)

\* array.push(e) followed by "if (length > cap) shift()"
PushCapped(s, e, cap) ==
    LET t == Append(s, e) IN IF Len(t) > cap THEN Tail(t) ELSE t

\* ------------------------------------------------ external collaborators
\* What a unit of work (agentFn / retryFn) can do: return a value (possibly
\* undefined) or throw (an Error with a message, or a value that is no Error).
WorkOutcomes ==
    {[kind |-> "return", value |-> "result", isError |-> FALSE],
     [kind |-> "return", value |-> UNDEF, isError |-> FALSE],
     [kind |-> "throw", value |-> "e1", isError |-> TRUE],
     [kind |-> "throw", value |-> "e2", isError |-> TRUE],
     [kind |-> "throw", value |-> "", isError |-> TRUE],
     [kind |-> "throw", value |-> "thrown string", isError |-> FALSE]}

\* Measured durations (Date.now() - startTime)
Durations == {100, 300}

\* options.outputToString: absent, a projector that returns text, or one that throws
Projectors == {"none", "text", "throws"}

\* The judge's raw reply: how the JSON is wrapped and what the JSON text is.
\*   wrap: "plain", "fence" (```json ... ```), "prose" (text around it)
\*   body: "object" (valid JSON object), "sloppy" (single quotes, unquoted
\*         keys or trailing commas), "null" (the literal null), "garbage"
VerdictOf(score, critical, fix) ==
    [isNull |-> FALSE, score |-> score, reasoning |-> "judged",
     hasCriticalIssue |-> critical, suggestedFix |-> fix]
NullVerdict ==
    [isNull |-> TRUE, score |-> 0, reasoning |-> NULL,
     hasCriticalIssue |-> FALSE, suggestedFix |-> NULL]
JudgeTexts ==
    {[wrap |-> "fence", body |-> "object", value |-> VerdictOf(90, FALSE, NULL)],
     [wrap |-> "plain", body |-> "object", value |-> VerdictOf(30, TRUE, "be specific")],
     [wrap |-> "prose", body |-> "sloppy", value |-> VerdictOf(50, TRUE, NULL)],
     [wrap |-> "prose", body |-> "garbage", value |-> NullVerdict],
     [wrap |-> "plain", body |-> "null", value |-> NullVerdict]}
\* The judge call: it throws, or it answers with a text
JudgeOutcomes ==
    {[kind |-> "throw", text |-> [wrap |-> "plain", body |-> "garbage", value |-> NullVerdict]]}
    \cup {[kind |-> "text", text |-> t] : t \in JudgeTexts}

\* --------------------------------------------------------- cleanJSON.ts
\* extractJSON: strips the fences, then slices from the first [ or { to the
\* last ] or }; a text without brackets is left as it is (prose included).
extractJSON(text) ==
    IF text.body \in {"object", "sloppy"}
    THEN [wrap |-> "plain", body |-> text.body, value |-> text.value]
    ELSE IF text.wrap = "fence"
         THEN [wrap |-> "plain", body |-> text.body, value |-> text.value]
         ELSE text

\* JSON.parse of an extracted text: succeeds on a bare valid JSON text
JSONParses(t) == t.wrap = "plain" /\ t.body \in {"object", "null"}

\* repairJSON: extractJSON, then trailing commas, unquoted keys and single
\* quotes are fixed, which turns a sloppy object into a valid one
repairJSON(text) ==
    LET e == extractJSON(text) IN
    IF e.body = "sloppy" THEN [e EXCEPT !.body = "object"] ELSE e

\* parseJSON(text, fallback)
parseJSON(text, fallback) ==
    IF JSONParses(extractJSON(text)) THEN extractJSON(text).value
    ELSE IF JSONParses(repairJSON(text)) THEN repairJSON(text).value
    ELSE fallback

\* -------------------------------------------------- evaluateQuality
EvalFallbackUnparsable ==
    [isNull |-> FALSE, score |-> SCORE_UNPARSABLE,
     reasoning |-> "Evaluation completed with default score",
     hasCriticalIssue |-> FALSE, suggestedFix |-> UNDEF]
EvalFallbackError ==
    [isNull |-> FALSE, score |-> SCORE_EVALUATOR_ERROR,
     reasoning |-> "Quality evaluation skipped (evaluator error)",
     hasCriticalIssue |-> FALSE, suggestedFix |-> UNDEF]
QualitySkipped ==
    [isNull |-> FALSE, score |-> SCORE_SKIPPED, reasoning |-> "Skipped",
     hasCriticalIssue |-> FALSE, suggestedFix |-> UNDEF]

\* evaluateQuality without its try/catch: a throwing judge leaves no verdict
\* and fails the attempt
evaluateQuality_NoCatch(judge) ==
    IF judge.kind = "throw" THEN NullVerdict
    ELSE parseJSON(judge.text, EvalFallbackUnparsable)

\* evaluateQuality, given what the judge call did
evaluateQuality(judge) ==
    IF judge.kind = "throw" THEN EvalFallbackError
    ELSE parseJSON(judge.text, EvalFallbackUnparsable)

\* ------------------------------------------------------------------ state
VARIABLES
    agents,            \* state.agents: AgentName -> AgentHealth
    totalCalls,        \* state.totalCalls
    totalCorrections,  \* state.totalCorrections
    callLog,           \* state.callLog
    calls,             \* the orchestrate invocations, in the order they started
    checklists,        \* checklists: sessionId -> ChecklistItem[]
    eventLog,          \* AgentBus.eventLog
    chains,            \* AgentBus.chains: chainId -> ChainSummary
    sseClients,        \* AgentBus.sseClients, in insertion order
    delivered,         \* what each feed subscriber's callback was called with
    replayed,          \* per subscriber: the events written to it before it subscribed
    handlers,          \* the trigger-handler invocations, in the order they started
    eventSeq,          \* events created so far (the source of event ids)
    emits,             \* emitAgentEvent calls made by controllers so far
    completes,         \* completeChain calls made by controllers so far
    created,           \* createChecklist calls so far
    lastCall,          \* the last call a controller made on the bus, and what it returned
    steps,             \* what the last call on the bus did, in order
    patched,           \* the PATCH requests on checklist items so far, with their answers
    threw,             \* per subscriber: the calls its callback had received when
                       \* it last threw into the bus (0: it never threw)
    now                \* the clock

orchVars == <<agents, totalCalls, totalCorrections, callLog, calls>>
busVars == <<eventLog, chains, sseClients, delivered, handlers, eventSeq, emits,
            completes, lastCall, steps, threw>>
vars == <<agents, totalCalls, totalCorrections, callLog, calls, checklists,
          eventLog, chains, sseClients, delivered, handlers, eventSeq, emits,
          completes, created, lastCall, steps, patched, threw, replayed, now>>

\* ------------------------------------------------------- orchestrator.ts
createEmptyHealth(agent) ==
    [agent |-> agent, totalCalls |-> 0, successRate |-> 100,
     avgQualityScore |-> 0, avgLatencyMs |-> 0, lastCallAt |-> 0,
     lastError |-> NULL, status |-> "healthy", recentCorrections |-> <<>>]

NoLog ==
    [id |-> 0, agent |-> "", timestamp |-> 0, durationMs |-> 0, success |-> FALSE,
     qualityScore |-> 0, qualityReasoning |-> "", retryCount |-> 0,
     outputSummary |-> "", correctionApplied |-> UNDEF, error |-> UNDEF]

NoThrow == [agent |-> "", attempts |-> 0, lastError |-> UNDEF]

\* No judge call made, no verdict obtained (in the current attempt)
NoJudge == [kind |-> "none", text |-> [wrap |-> "plain", body |-> "garbage", value |-> NullVerdict]]
NoQuality ==
    [isNull |-> FALSE, score |-> 0, reasoning |-> UNDEF,
     hasCriticalIssue |-> FALSE, suggestedFix |-> UNDEF]

\* updateHealth: the rolling average of quality and latency
RollingAvg(oldAvg, n, value) ==
    IF n = 1 THEN value ELSE Round(oldAvg * (n - 1) + value, n)

\* updateHealth: the successes counted for the success rate; `log` is the
\* call log as updateHealth finds it
SuccessCount(log, agentName, entry) ==
    Cardinality({i \in 1..Len(log) : log[i].agent = agentName /\ log[i].success})
        + (IF entry.success THEN 1 ELSE 0)

HealthStatus(successRate, avgQualityScore) ==
    IF successRate < 50 \/ avgQualityScore < 40 THEN "failing"
    ELSE IF successRate < 80 \/ avgQualityScore < 60 THEN "degraded"
    ELSE "healthy"

\* updateHealth: when the failed call's error text replaces lastError
RecordsLastError(entry) == ~entry.success /\ Truthy(entry.error)

\* updateHealth(agentName, log), on the health record h of that agent
updateHealth(h, log, entry) ==
    LET n == h.totalCalls + 1
        quality == RollingAvg(h.avgQualityScore, n, entry.qualityScore)
        latency == RollingAvg(h.avgLatencyMs, n, entry.durationMs)
        rate == Round(SuccessCount(log, h.agent, entry) * 100, n)
        corr == IF Truthy(entry.correctionApplied)
                THEN PushCapped(h.recentCorrections, entry.correctionApplied,
                                MAX_RECENT_CORRECTIONS)
                ELSE h.recentCorrections
    IN [agent |-> h.agent, totalCalls |-> n, successRate |-> rate,
        avgQualityScore |-> quality, avgLatencyMs |-> latency,
        lastCallAt |-> entry.timestamp,
        lastError |-> IF RecordsLastError(entry) THEN entry.error ELSE h.lastError,
        status |-> HealthStatus(rate, quality),
        recentCorrections |-> corr]

\* A loop that re-invokes agentFn on every attempt, retryFn or not
Invocation_AgentFnOnly(f) == [fn |-> "agentFn", arg |-> UNDEF, attempt |-> f.attempt]

\* The unit of work an attempt invokes, and the argument it gets
Invocation(f) ==
    IF f.attempt = 0 \/ ~f.retryFn
    THEN [fn |-> "agentFn", arg |-> UNDEF, attempt |-> f.attempt]
    ELSE [fn |-> "retryFn",
          arg |-> IF Truthy(f.correctionApplied) THEN f.correctionApplied
                  ELSE "Retry with improved parameters",
          attempt |-> f.attempt]

\* The frame of an orchestrate call at its first await
NewCall(agentName, maxRetries, retryFn, projector, skip, by) ==
    LET f == [agent |-> agentName, maxRetries |-> maxRetries, retryFn |-> retryFn,
              projector |-> projector, skipQualityCheck |-> skip, by |-> by,
              pc |-> "work", attempt |-> 0, retryCount |-> 0,
              correctionApplied |-> UNDEF, lastError |-> UNDEF,
              result |-> UNDEF, durationMs |-> 0, outputStr |-> UNDEF,
              trace |-> <<>>, outcomes |-> <<>>, judge |-> NoJudge,
              quality |-> NoQuality, log |-> NoLog, thrown |-> NoThrow]
    IN [f EXCEPT !.trace = <<Invocation(f)>>]

\* "continue": the next iteration of the attempt loop, up to its await
NextAttempt(f, correction, lastError) ==
    LET g == [f EXCEPT !.retryCount = @ + 1, !.correctionApplied = correction,
                       !.lastError = lastError, !.attempt = @ + 1, !.pc = "work"]
    IN [g EXCEPT !.trace = Append(@, Invocation(g)), !.result = UNDEF,
                 !.durationMs = 0, !.outputStr = UNDEF, !.judge = NoJudge,
                 !.quality = NoQuality]

\* catch: are retries left?
\* The loop bound off by one: a retry is left on attempt maxRetries too
RetriesRemain_OneMore(attempt, maxRetries) == attempt <= maxRetries

RetriesRemain(attempt, maxRetries) == attempt < maxRetries

\* The retry decision after quality evaluation
QualityRetry(quality, attempt, maxRetries, retryFn) ==
    quality.hasCriticalIssue /\ attempt < maxRetries /\ retryFn

\* The CallLog of a call that ended well
SuccessLog(c, f, quality) ==
    [id |-> c, agent |-> f.agent, timestamp |-> now, durationMs |-> f.durationMs,
     success |-> TRUE, qualityScore |-> quality.score,
     qualityReasoning |-> quality.reasoning, retryCount |-> f.retryCount,
     outputSummary |-> f.outputStr, correctionApplied |-> f.correctionApplied,
     error |-> UNDEF]

\* The CallLog written after the attempt loop ("All attempts failed")
FailureLog(c, f, lastError, dur) ==
    [id |-> c, agent |-> f.agent, timestamp |-> now, durationMs |-> dur,
     success |-> FALSE, qualityScore |-> 0,
     qualityReasoning |-> "All " \o ToString(f.maxRetries + 1) \o " attempts failed",
     retryCount |-> f.retryCount, outputSummary |-> "",
     correctionApplied |-> f.correctionApplied, error |-> lastError]

\* The catch block, and what follows the loop when no retry is left.
\* The result of a step: the frame, and the corrections it counted.
OnCatch(c, f, msg, dur) ==
    IF RetriesRemain(f.attempt, f.maxRetries)
    THEN [frame |-> NextAttempt(f, "Auto-retry after error: " \o msg, msg),
          corrections |-> 1]
    ELSE [frame |-> [f EXCEPT !.lastError = msg, !.pc = "thrown",
                              !.log = FailureLog(c, f, msg, dur),
                              !.thrown = [agent |-> f.agent,
                                          attempts |-> f.retryCount + 1,
                                          lastError |-> msg]],
          corrections |-> 0]

\* A retry after a critical verdict that is not counted as a correction
OnQuality_RetryNotCounted(c, f0, quality, dur) ==
    LET f == [f0 EXCEPT !.quality = quality] IN
    IF quality.isNull
    THEN OnCatch(c, f, "Cannot read properties of null (reading 'hasCriticalIssue')", dur)
    ELSE IF QualityRetry(quality, f.attempt, f.maxRetries, f.retryFn)
    THEN [frame |-> NextAttempt(f, IF Truthy(quality.suggestedFix)
                                   THEN quality.suggestedFix
                                   ELSE "Retry with stricter validation",
                                f.lastError),
          corrections |-> 0]
    ELSE [frame |-> [f EXCEPT !.pc = "returned", !.log = SuccessLog(c, f, quality)],
          corrections |-> 0]

\* The attempt from the quality verdict on
OnQuality(c, f0, quality, dur) ==
    LET f == [f0 EXCEPT !.quality = quality] IN
    IF quality.isNull
    THEN OnCatch(c, f, "Cannot read properties of null (reading 'hasCriticalIssue')", dur)
    ELSE IF QualityRetry(quality, f.attempt, f.maxRetries, f.retryFn)
    THEN [frame |-> NextAttempt(f, IF Truthy(quality.suggestedFix)
                                   THEN quality.suggestedFix
                                   ELSE "Retry with stricter validation",
                                f.lastError),
          corrections |-> 1]
    ELSE [frame |-> [f EXCEPT !.pc = "returned", !.log = SuccessLog(c, f, quality)],
          corrections |-> 0]

\* Projecting the result to text: options.outputToString, or
\* JSON.stringify(result).substring(0, 500), which throws on undefined
ProjectionThrows(projector, value) ==
    projector = "throws" \/ (projector = "none" /\ value = UNDEF)
ProjectionError(projector) ==
    IF projector = "throws" THEN "projector failed"
    ELSE "Cannot read properties of undefined (reading 'substring')"
Projection(projector, value) ==
    IF projector = "text" THEN "projected" ELSE "json:" \o value

\* The attempt from the return of the unit of work to the next await
OnWorkReturn(c, f, value, dur) ==
    IF ProjectionThrows(f.projector, value)
    THEN OnCatch(c, f, ProjectionError(f.projector), dur)
    ELSE LET g == [f EXCEPT !.result = value, !.durationMs = dur,
                            !.outputStr = Projection(f.projector, value)]
         IN IF g.skipQualityCheck
            THEN OnQuality(c, g, QualitySkipped, dur)
            ELSE [frame |-> [g EXCEPT !.pc = "judge"], corrections |-> 0]

\* The text of a thrown value: err instanceof Error ? err.message : 'Unknown error'
ErrorText(outcome) == IF outcome.isError THEN outcome.value ELSE "Unknown error"

OnWork(c, f, outcome, dur) ==
    LET g == [f EXCEPT !.outcomes = Append(@, outcome)] IN
    IF outcome.kind = "throw" THEN OnCatch(c, g, ErrorText(outcome), dur)
    ELSE OnWorkReturn(c, g, outcome.value, dur)

IsDone(f) == f.pc \in {"returned", "thrown"}

\* A log that is never trimmed
LogAppend_NoShift(log, entry) == Append(log, entry)

\* state.callLog.push(log); if (length > MAX_LOG_SIZE) shift()
LogAppend(log, entry) == PushCapped(log, entry, MAX_LOG_SIZE)

\* Commit without the bookkeeping of a failed call: the log is appended, but
\* totalCalls and the health record are left as they were
Commit_FailureNotCounted(c, r) ==
    /\ calls' = [calls EXCEPT ![c] = r.frame]
    /\ totalCorrections' = totalCorrections + r.corrections
    /\ IF IsDone(r.frame)
       THEN /\ callLog' = LogAppend(callLog, r.frame.log)
            /\ IF r.frame.pc = "returned"
               THEN /\ totalCalls' = totalCalls + 1
                    /\ agents' = [agents EXCEPT ![r.frame.agent] =
                                      updateHealth(@, callLog', r.frame.log)]
               ELSE UNCHANGED <<totalCalls, agents>>
       ELSE UNCHANGED <<callLog, totalCalls, agents>>

\* Commit with an await between the log and the health update: the step
\* ends with the log written and counted and the health record not yet updated
Commit_HealthAfterAwait(c, r) ==
    /\ calls' = [calls EXCEPT ![c] = r.frame]
    /\ totalCorrections' = totalCorrections + r.corrections
    /\ IF IsDone(r.frame)
       THEN /\ callLog' = LogAppend(callLog, r.frame.log)
            /\ totalCalls' = totalCalls + 1
            /\ UNCHANGED agents
       ELSE UNCHANGED <<callLog, totalCalls, agents>>

\* The state update of a step of call c with result r: the corrections
\* counted and, when the call ended, its log and the health update
Commit(c, r) ==
    /\ calls' = [calls EXCEPT ![c] = r.frame]
    /\ totalCorrections' = totalCorrections + r.corrections
    /\ IF IsDone(r.frame)
       THEN /\ callLog' = LogAppend(callLog, r.frame.log)
            /\ totalCalls' = totalCalls + 1
            /\ agents' = [agents EXCEPT ![r.frame.agent] =
                              updateHealth(@, callLog', r.frame.log)]
       ELSE UNCHANGED <<callLog, totalCalls, agents>>

\* ------------------------------------------------------------ checklist
\* One entry of buildBorrowerChecklist's task list, as createChecklist makes it
NewItem(i, agentName) ==
    [id |-> now * 10 + i, assignedAgent |-> agentName, status |-> "pending", progress |-> 0,
     result |-> UNDEF, decision |-> UNDEF, startedAt |-> 0, completedAt |-> 0]

\* The agents of buildBorrowerChecklist's tasks, in order
BORROWER_TASKS ==
    <<"vision", "watchdog", "debate", "letter", "call-script", "freedom", "coach">>

createChecklist(items) == [i \in 1..Len(items) |-> NewItem(i, items[i])]

\* A first loop that restarts every item of the agent, completed or not
MarkInProgress_Restarts(lists, agentName) ==
    [sid \in DOMAIN lists |->
        [i \in 1..Len(lists[sid]) |->
            IF lists[sid][i].assignedAgent = agentName
            THEN [lists[sid][i] EXCEPT !.status = "in_progress", !.progress = 30,
                                       !.startedAt = now]
            ELSE lists[sid][i]]]

\* orchestrate's first loop: the pending items of the agent go in_progress
MarkInProgress(lists, agentName) ==
    [sid \in DOMAIN lists |->
        [i \in 1..Len(lists[sid]) |->
            IF lists[sid][i].assignedAgent = agentName /\ lists[sid][i].status = "pending"
            THEN [lists[sid][i] EXCEPT !.status = "in_progress", !.progress = 30,
                                       !.startedAt = now]
            ELSE lists[sid][i]]]

\* updateChecklistItem(sessionId, itemId, update): Object.assign copies every
\* key of update, whatever its value. found is FALSE where it returns null.
updateChecklistItem(lists, sessionId, itemId, update) ==
    IF sessionId \notin DOMAIN lists THEN [lists |-> lists, found |-> FALSE]
    ELSE LET hits == {i \in 1..Len(lists[sessionId]) : lists[sessionId][i].id = itemId}
         IN IF hits = {} THEN [lists |-> lists, found |-> FALSE]
            ELSE LET i == CHOOSE x \in hits : \A y \in hits : x <= y
                     item == lists[sessionId][i]
                 IN [lists |-> [lists EXCEPT ![sessionId][i] =
                                   [f \in DOMAIN item |->
                                       IF f \in DOMAIN update THEN update[f] ELSE item[f]]],
                     found |-> TRUE]

\* The update the PATCH endpoint builds from a request body: the four keys
\* it destructures are always present, undefined where the body has none
\* (an undefined progress is -1 here)
PatchUpdate(body) ==
    LET status == IF "status" \in DOMAIN body THEN body.status ELSE UNDEF
        keys == {"status", "progress", "result", "decision"}
                \cup (IF status = "in_progress" THEN {"startedAt"} ELSE {})
                \cup (IF status = "completed" THEN {"completedAt"} ELSE {})
    IN [f \in keys |->
           IF f \in {"startedAt", "completedAt"} THEN now
           ELSE IF f \in DOMAIN body THEN body[f]
           ELSE IF f = "progress" THEN -1
           ELSE UNDEF]

\* The sources the checklist observer knows (AGENT_TO_CHECKLIST)
AGENT_TO_CHECKLIST ==
    {"vision", "watchdog", "debate", "letter", "call-script", "freedom", "coach"}

\* An observer that stops at the first checklist it finds an item in
ChecklistObserver_FirstSession(lists, event) ==
    IF event.source \notin AGENT_TO_CHECKLIST \/ DOMAIN lists = {} THEN lists
    ELSE LET first == CHOOSE s \in DOMAIN lists : \A t \in DOMAIN lists : s <= t
         IN [sid \in DOMAIN lists |->
               [i \in 1..Len(lists[sid]) |->
                   IF /\ sid = first
                      /\ lists[sid][i].assignedAgent = event.source
                      /\ lists[sid][i].status # "completed"
                   THEN [lists[sid][i] EXCEPT !.status = "completed", !.progress = 100,
                                              !.result = event.summary,
                                              !.completedAt = now]
                   ELSE lists[sid][i]]]

\* The checklist observer registered for every chain-relevant event type
ChecklistObserver(lists, event) ==
    IF event.source \notin AGENT_TO_CHECKLIST THEN lists
    ELSE [sid \in DOMAIN lists |->
            [i \in 1..Len(lists[sid]) |->
                IF lists[sid][i].assignedAgent = event.source
                   /\ lists[sid][i].status # "completed"
                THEN [lists[sid][i] EXCEPT !.status = "completed", !.progress = 100,
                                           !.result = event.summary,
                                           !.completedAt = now]
                ELSE lists[sid][i]]]

\* ------------------------------------------------------------ agentBus.ts
BusEventTypes ==
    {"vision:extracted", "watchdog:matched", "freedom:updated", "letter:generated",
     "call-script:generated", "debate:verdict", "coach:insight"}

\* The event types with a trigger handler (registerBusHandlers)
TriggerTypes ==
    {"vision:extracted", "watchdog:matched", "debate:verdict", "freedom:updated"}

NoPayload == [kind |-> "undefined", totalAgents |-> 0, totalDurationMs |-> 0,
              agentsFired |-> <<>>]
ObjectPayload == [kind |-> "object", totalAgents |-> 0, totalDurationMs |-> 0,
                  agentsFired |-> <<>>]

\* emit's cycle detection
\* No cycle detection at all
DepthExceeded_Never(depth) == depth > MAX_CHAIN_DEPTH /\ depth < 0

\* The depth test off by one: depth 4 passes
DepthExceeded_OffByOne(depth) == depth > MAX_CHAIN_DEPTH + 1

DepthExceeded(depth) == depth > MAX_CHAIN_DEPTH

\* trackChain counting every event as one more agent
trackChain_CountsEvents(ch, event) ==
    LET old == IF event.chainId \in DOMAIN ch THEN ch[event.chainId]
               ELSE [chainId |-> event.chainId, events |-> <<>>, totalAgents |-> 0,
                     totalDurationMs |-> 0, startedAt |-> event.timestamp,
                     completedAt |-> 0, status |-> "running"]
        new == [old EXCEPT !.events = Append(@, event),
                           !.totalAgents = @ + 1,
                           !.totalDurationMs = @ + event.durationMs]
    IN [c \in DOMAIN ch \cup {event.chainId} |->
            IF c = event.chainId THEN new ELSE ch[c]]

\* trackChain
trackChain(ch, event) ==
    LET old == IF event.chainId \in DOMAIN ch THEN ch[event.chainId]
               ELSE [chainId |-> event.chainId, events |-> <<>>, totalAgents |-> 0,
                     totalDurationMs |-> 0, startedAt |-> event.timestamp,
                     completedAt |-> 0, status |-> "running"]
        evs == Append(old.events, event)
        new == [old EXCEPT !.events = evs,
                           !.totalAgents = Cardinality({evs[i].source : i \in 1..Len(evs)}),
                           !.totalDurationMs = @ + event.durationMs]
    IN [c \in DOMAIN ch \cup {event.chainId} |->
            IF c = event.chainId THEN new ELSE ch[c]]

\* The backlog the feed endpoint replays to a client that connects
FEED_BACKLOG == 30

\* A backlog cut from the old end of the log
getRecentEvents_Oldest(log, limit) ==
    SubSeq(log, 1, IF Len(log) < limit THEN Len(log) ELSE limit)

\* AgentBus.getRecentEvents(limit): eventLog.slice(-limit), limit > 0
getRecentEvents(log, limit) ==
    SubSeq(log, IF Len(log) > limit THEN Len(log) - limit + 1 ELSE 1, Len(log))

\* subscribe's callers: the feed endpoint, whose callback catches a failed
\* write and unsubscribes itself, and a callback that lets the error out
SubscriberKinds == {"feed", "raw"}

\* A broadcast loop without the try/catch: the first callback that throws
\* ends the loop
RECURSIVE Broadcast_NoCatch(_, _, _, _, _)
Broadcast_NoCatch(order, clients, got, ev, failing) ==
    IF order = <<>> THEN [clients |-> clients, delivered |-> got, called |-> <<>>]
    ELSE LET s == Head(order)
             live == \E i \in 1..Len(clients) : clients[i] = s
         IN IF ~live THEN Broadcast_NoCatch(Tail(order), clients, got, ev, failing)
            ELSE IF s.id \in failing /\ s.kind = "raw"
            THEN [clients |-> clients,
                  delivered |-> [got EXCEPT ![s.id] = Append(@, ev)],
                  called |-> <<s.id>>]
            ELSE LET rest == Broadcast_NoCatch(Tail(order),
                                               IF s.id \in failing
                                               THEN SelectSeq(clients, LAMBDA x : x # s)
                                               ELSE clients,
                                               [got EXCEPT ![s.id] = Append(@, ev)],
                                               ev, failing)
                 IN [rest EXCEPT !.called = <<s.id>> \o @]

\* A broadcast that calls only the callback registered first
Broadcast_FirstOnly(order, clients, got, ev, failing) ==
    IF order = <<>> THEN [clients |-> clients, delivered |-> got, called |-> <<>>]
    ELSE LET s == Head(order)
         IN [clients |-> IF s.id \in failing /\ s.kind = "feed"
                         THEN SelectSeq(clients, LAMBDA x : x # s)
                         ELSE clients,
             delivered |-> [got EXCEPT ![s.id] = Append(@, ev)],
             called |-> <<s.id>>]

\* A broadcast that calls the callbacks newest first
RECURSIVE Broadcast_NewestFirst(_, _, _, _, _)
Broadcast_NewestFirst(order, clients, got, ev, failing) ==
    IF order = <<>> THEN [clients |-> clients, delivered |-> got, called |-> <<>>]
    ELSE LET s == order[Len(order)]
             rest == Broadcast_NewestFirst(SubSeq(order, 1, Len(order) - 1),
                                           IF s.id \in failing /\ s.kind = "feed"
                                           THEN SelectSeq(clients, LAMBDA x : x # s)
                                           ELSE clients,
                                           [got EXCEPT ![s.id] = Append(@, ev)],
                                           ev, failing)
         IN [rest EXCEPT !.called = <<s.id>> \o @]

\* "for (const client of this.sseClients) try { client(ev) } catch {}".
\* failing: the clients whose delivery fails in this step. Returns the set of
\* clients afterwards and what each callback has been called with.
RECURSIVE Broadcast(_, _, _, _, _)
Broadcast(order, clients, got, ev, failing) ==
    IF order = <<>> THEN [clients |-> clients, delivered |-> got, called |-> <<>>]
    ELSE LET s == Head(order)
             live == \E i \in 1..Len(clients) : clients[i] = s
         IN IF ~live THEN Broadcast(Tail(order), clients, got, ev, failing)
            ELSE LET rest == Broadcast(Tail(order),
                                       IF s.id \in failing /\ s.kind = "feed"
                                       THEN SelectSeq(clients, LAMBDA x : x # s)
                                       ELSE clients,
                                       [got EXCEPT ![s.id] = Append(@, ev)], ev, failing)
                 IN [rest EXCEPT !.called = <<s.id>> \o @]

\* The callbacks whose error reaches the bus's catch block in one broadcast to
\* clients: got is what each callback has been called with after it
RecordThrows(thrown, clients, got, failing) ==
    [k \in DOMAIN thrown |->
        IF /\ k \in failing
           /\ \E i \in 1..Len(clients) : clients[i].id = k /\ clients[i].kind = "raw"
        THEN Len(got[k])
        ELSE thrown[k]]

\* One thing a call on the bus did: what, to which callback, with which event
Did(what, client, ev) == [what |-> what, client |-> client, event |-> ev.id]
Calls(called, ev) == [i \in 1..Len(called) |-> Did("client", called[i], ev)]

\* (ms / 1000).toFixed(1)
SecondsText(ms) ==
    LET tenths == Round(ms, 100)
    IN ToString(tenths \div 10) \o "." \o ToString(tenths % 10)

\* The chain-summary event completeChain synthesizes
ChainSummaryEvent(chain) ==
    [id |-> 0 - now, type |-> "freedom:updated", source |-> "freedom",
     chainId |-> chain.chainId, depth |-> -1, timestamp |-> now,
     summary |-> "Chain complete: " \o ToString(chain.totalAgents) \o " agents, "
                 \o SecondsText(chain.totalDurationMs) \o "s",
     payload |-> [kind |-> "chainSummary", totalAgents |-> chain.totalAgents,
                  totalDurationMs |-> chain.totalDurationMs,
                  agentsFired |-> [i \in 1..Len(chain.events) |-> chain.events[i].source]],
     durationMs |-> 0, triggeredBy |-> 0]

\* The bus and what its listeners write, as one value
Bus ==
    [eventLog |-> eventLog, chains |-> chains, sseClients |-> sseClients,
     delivered |-> delivered, handlers |-> handlers, eventSeq |-> eventSeq,
     checklists |-> checklists, threw |-> threw, steps |-> steps]

\* completeChain that also records the summary event as an event of the bus
completeChain_Recorded(B, chainId, failing) ==
    IF chainId \notin DOMAIN B.chains THEN B
    ELSE LET done == [B.chains[chainId] EXCEPT !.status = "completed",
                                               !.completedAt = now]
             sent == Broadcast(B.sseClients, B.sseClients, B.delivered,
                               ChainSummaryEvent(done), failing)
         IN [B EXCEPT !.chains = [B.chains EXCEPT ![chainId] = done],
                      !.eventLog = PushCapped(@, ChainSummaryEvent(done), MAX_EVENT_LOG),
                      !.sseClients = sent.clients, !.delivered = sent.delivered,
                      !.threw = RecordThrows(@, B.sseClients, sent.delivered, failing),
                      !.steps = @ \o Calls(sent.called, ChainSummaryEvent(done))]

\* completeChain(chainId)
completeChain(B, chainId, failing) ==
    IF chainId \notin DOMAIN B.chains THEN B
    ELSE LET done == [B.chains[chainId] EXCEPT !.status = "completed",
                                               !.completedAt = now]
             sent == Broadcast(B.sseClients, B.sseClients, B.delivered,
                               ChainSummaryEvent(done), failing)
         IN [B EXCEPT !.chains = [B.chains EXCEPT ![chainId] = done],
                      !.sseClients = sent.clients, !.delivered = sent.delivered,
                      !.threw = RecordThrows(@, B.sseClients, sent.delivered, failing),
                      !.steps = @ \o Calls(sent.called, ChainSummaryEvent(done))]

\* Handlers without the depth guard
HandlerSkips_Never(event) == FALSE

\* A trigger handler's guard: "if (event.depth >= 3) return"
HandlerSkips(event) == event.depth >= 3

\* A trigger handler that leaves the chain alone while a checklist still
\* has a pending item for the event's source
TriggerHandler_WaitsForChecklist(B, event, failing) ==
    LET frame(pc) == [type |-> event.type, event |-> event, pc |-> pc, call |-> 0]
        with(pc) == [B EXCEPT !.handlers = Append(@, frame(pc)),
                              !.steps = Append(@, Did("handler", 0, event))]
        listed == \E sid \in DOMAIN B.checklists : \E i \in 1..Len(B.checklists[sid]) :
                     /\ B.checklists[sid][i].assignedAgent = event.source
                     /\ B.checklists[sid][i].status = "pending"
    IN IF event.type \notin TriggerTypes THEN B
       ELSE IF HandlerSkips(event) \/ listed THEN with("skipped")
       ELSE IF event.type = "freedom:updated"
            THEN completeChain(with("done"), event.chainId, failing)
       ELSE IF event.type = "debate:verdict" /\ event.payload.kind = "undefined"
            THEN with("rejected")
       ELSE with("import")

\* The trigger handler of the event's type, up to its first await
TriggerHandler(B, event, failing) ==
    LET frame(pc) == [type |-> event.type, event |-> event, pc |-> pc, call |-> 0]
        with(pc) == [B EXCEPT !.handlers = Append(@, frame(pc)),
                              !.steps = Append(@, Did("handler", 0, event))]
    IN IF event.type \notin TriggerTypes THEN B
       ELSE IF HandlerSkips(event) THEN with("skipped")
       ELSE IF event.type = "freedom:updated"
            THEN completeChain(with("done"), event.chainId, failing)
       ELSE IF event.type = "debate:verdict" /\ event.payload.kind = "undefined"
            THEN with("rejected")
       ELSE with("import")

\* AgentBus.emit(type, event): the bus after the call, and what it returned
emit(B, type, partial, failing) ==
    IF DepthExceeded(partial.depth) THEN [bus |-> B, ok |-> FALSE]
    ELSE LET fullEvent == [id |-> B.eventSeq + 1, type |-> type,
                           source |-> partial.source, chainId |-> partial.chainId,
                           depth |-> partial.depth, timestamp |-> now,
                           summary |-> partial.summary, payload |-> partial.payload,
                           durationMs |-> partial.durationMs,
                           triggeredBy |-> partial.triggeredBy]
             sent == Broadcast(B.sseClients, B.sseClients, B.delivered, fullEvent, failing)
             B1 == [B EXCEPT !.eventSeq = @ + 1,
                             !.eventLog = PushCapped(@, fullEvent, MAX_EVENT_LOG),
                             !.chains = trackChain(@, fullEvent),
                             !.sseClients = sent.clients,
                             !.delivered = sent.delivered,
                             !.threw = RecordThrows(@, B.sseClients, sent.delivered,
                                                    failing),
                             !.steps = <<Did("log", 0, fullEvent),
                                         Did("track", 0, fullEvent)>>
                                       \o Calls(sent.called, fullEvent)]
             B2 == TriggerHandler(B1, fullEvent, failing)
         IN [bus |-> [B2 EXCEPT !.checklists = ChecklistObserver(@, fullEvent),
                                !.steps = Append(@, Did("observer", 0, fullEvent))],
             ok |-> TRUE]

\* The variables of the bus and the checklist take the values of B
SetBus(B) ==
    /\ eventLog' = B.eventLog
    /\ chains' = B.chains
    /\ sseClients' = B.sseClients
    /\ delivered' = B.delivered
    /\ handlers' = B.handlers
    /\ eventSeq' = B.eventSeq
    /\ checklists' = B.checklists
    /\ threw' = B.threw
    /\ steps' = B.steps

\* What a trigger handler orchestrates and emits
HandlerAgent(type) == IF type = "vision:extracted" THEN "watchdog" ELSE "freedom"
\* A trigger table with a cycle: the watchdog handler re-emits vision:extracted
HandlerEmits_Cyclic(type) == IF type = "vision:extracted" THEN "watchdog:matched"
                             ELSE IF type = "watchdog:matched" THEN "vision:extracted"
                             ELSE "freedom:updated"

HandlerEmits(type) == IF type = "vision:extracted" THEN "watchdog:matched"
                      ELSE "freedom:updated"
HandlerSummary(type) ==
    IF type = "vision:extracted" THEN "Matched grants"
    ELSE IF type = "watchdog:matched" THEN "Path recalculated"
    ELSE "Path forked"

\* A handler that passes the depth on unchanged
NextDepth_Same(event) == event.depth

\* The depth a trigger handler gives the event it emits
NextDepth(event) == event.depth + 1

\* The rest of a trigger handler once its orchestrate call has ended:
\* emitAgentEvent at depth + 1, or the catch block
HandlerContinues(B, h, f, failing) ==
    LET ev == B.handlers[h].event
        B1 == [B EXCEPT !.handlers[h].pc = IF f.pc = "returned" THEN "done" ELSE "failed"]
    IN IF f.pc = "returned"
       THEN emit(B1, HandlerEmits(ev.type),
                 [source |-> HandlerAgent(ev.type), chainId |-> ev.chainId,
                  depth |-> NextDepth(ev), summary |-> HandlerSummary(ev.type),
                  payload |-> ObjectPayload, triggeredBy |-> ev.id,
                  durationMs |-> f.log.durationMs], failing).bus
       ELSE B1

\* ---------------------------------------------------------------- actions
\* No call made on the bus by a controller yet
NoCall == [op |-> "none", chainId |-> 0, depth |-> 0, ok |-> TRUE]

Init ==
    /\ agents = [a \in AGENT_NAMES |-> createEmptyHealth(a)]
    /\ totalCalls = 0
    /\ totalCorrections = 0
    /\ callLog = <<>>
    /\ calls = <<>>
    /\ checklists = <<>>
    /\ eventLog = <<>>
    /\ chains = <<>>
    /\ sseClients = <<>>
    /\ delivered = <<>>
    /\ handlers = <<>>
    /\ eventSeq = 0
    /\ emits = 0
    /\ completes = 0
    /\ created = 0
    /\ lastCall = NoCall
    /\ threw = <<>>
    /\ steps = <<>>
    /\ patched = <<>>
    /\ replayed = <<>>
    /\ now = 1

ClientIds == {sseClients[i].id : i \in 1..Len(sseClients)}
ControllerCalls == {c \in 1..Len(calls) : calls[c].by = 0}

\* A controller (or the test harness) calls orchestrate: the call runs to
\* its first await
StartCall(agentName, maxRetries, retryFn, projector, skip) ==
    /\ Cardinality(ControllerCalls) < MaxCalls
    /\ calls' = Append(calls, NewCall(agentName, maxRetries, retryFn, projector, skip, 0))
    /\ checklists' = MarkInProgress(checklists, agentName)
    /\ now' = now + 1
    /\ UNCHANGED <<patched, replayed>>
    /\ UNCHANGED <<lastCall, steps, threw>>
    /\ UNCHANGED <<agents, totalCalls, totalCorrections, callLog, eventLog, chains,
                   sseClients, delivered, handlers, eventSeq, emits, completes, created>>

\* What follows a step of call c: when the call was made by a trigger
\* handler and has ended, the handler goes on in the same turn
AfterCall(c, r, failing) ==
    IF IsDone(r.frame) /\ r.frame.by # 0
    THEN \E B \in {HandlerContinues(Bus, r.frame.by, r.frame, failing)} : SetBus(B)
    ELSE /\ failing = {}
         /\ UNCHANGED <<checklists, eventLog, chains, sseClients, delivered,
                        handlers, eventSeq, threw, steps>>

\* The unit of work of call c's current attempt returns or throws
WorkCompletes(c, outcome, dur, failing) ==
    /\ c \in 1..Len(calls)
    /\ calls[c].pc = "work"
    /\ \E r \in {OnWork(c, calls[c], outcome, dur)} :
          Commit(c, r) /\ AfterCall(c, r, failing)
    /\ now' = now + 1
    /\ UNCHANGED <<patched, replayed>>
    /\ UNCHANGED lastCall
    /\ UNCHANGED <<emits, completes, created>>

\* The judge call made by evaluateQuality for call c returns or throws
JudgeCompletes(c, judge, dur, failing) ==
    /\ c \in 1..Len(calls)
    /\ calls[c].pc = "judge"
    /\ \E r \in {OnQuality(c, [calls[c] EXCEPT !.judge = judge],
                             evaluateQuality(judge), dur)} :
          Commit(c, r) /\ AfterCall(c, r, failing)
    /\ now' = now + 1
    /\ UNCHANGED <<patched, replayed>>
    /\ UNCHANGED lastCall
    /\ UNCHANGED <<emits, completes, created>>

\* A controller calls emitAgentEvent
ControllerEmit(type, source, chainId, depth, payload, durationMs, failing) ==
    /\ emits < MaxEmits
    /\ emits' = emits + 1
    /\ \E r \in {emit(Bus, type,
                      [source |-> source, chainId |-> chainId, depth |-> depth,
                       summary |-> "summary " \o ToString(emits + 1),
                       payload |-> payload, triggeredBy |-> 0,
                       durationMs |-> durationMs], failing)} :
          /\ SetBus(r.bus)
          /\ lastCall' = [op |-> "emit", chainId |-> chainId, depth |-> depth,
                          ok |-> r.ok]
    /\ now' = now + 1
    /\ UNCHANGED <<patched, replayed>>
    /\ UNCHANGED <<agents, totalCalls, totalCorrections, callLog, calls, completes,
                   created>>

\* A controller calls agentBus.completeChain
ControllerCompleteChain(chainId, failing) ==
    /\ completes < MaxCompletes
    /\ completes' = completes + 1
    /\ \E B \in {completeChain([Bus EXCEPT !.steps = <<>>], chainId, failing)} :
          SetBus(B)
    /\ lastCall' = [op |-> "completeChain", chainId |-> chainId, depth |-> 0,
                    ok |-> TRUE]
    /\ now' = now + 1
    /\ UNCHANGED <<patched, replayed>>
    /\ UNCHANGED <<agents, totalCalls, totalCorrections, callLog, calls, emits, created>>

\* The dynamic imports of trigger handler h resolve: it calls orchestrate,
\* which runs to its first await
HandlerImported(h) ==
    /\ h \in 1..Len(handlers)
    /\ handlers[h].pc = "import"
    /\ LET agentName == HandlerAgent(handlers[h].type)
       IN /\ calls' = Append(calls, NewCall(agentName, 1, FALSE, "none", TRUE, h))
          /\ checklists' = MarkInProgress(checklists, agentName)
    /\ handlers' = [handlers EXCEPT ![h].pc = "call", ![h].call = Len(calls) + 1]
    /\ now' = now + 1
    /\ UNCHANGED <<patched, replayed>>
    /\ UNCHANGED <<lastCall, steps, threw>>
    /\ UNCHANGED <<agents, totalCalls, totalCorrections, callLog, eventLog, chains,
                   sseClients, delivered, eventSeq, emits, completes, created>>

\* agentBus.subscribe(callback). The feed endpoint (GET /feed) first writes
\* getRecentEvents(30) to its response and subscribes in the same turn.
Subscribe(kind) ==
    /\ Len(delivered) < MaxSubs
    /\ sseClients' = Append(sseClients, [id |-> Len(delivered) + 1, kind |-> kind])
    /\ delivered' = Append(delivered, <<>>)
    /\ threw' = Append(threw, 0)
    /\ replayed' = Append(replayed, IF kind = "feed"
                                    THEN getRecentEvents(eventLog, FEED_BACKLOG)
                                    ELSE <<>>)
    /\ UNCHANGED steps
    /\ now' = now + 1
    /\ UNCHANGED patched
    /\ UNCHANGED lastCall
    /\ UNCHANGED <<agents, totalCalls, totalCorrections, callLog, calls, checklists,
                   eventLog, chains, handlers, eventSeq, emits, completes, created>>

\* The unsubscribe function subscribe returned
Unsubscribe(s) ==
    /\ s \in ClientIds
    /\ sseClients' = SelectSeq(sseClients, LAMBDA x : x.id # s)
    /\ now' = now + 1
    /\ UNCHANGED <<patched, replayed>>
    /\ UNCHANGED <<lastCall, steps, threw>>
    /\ UNCHANGED <<agents, totalCalls, totalCorrections, callLog, calls, checklists,
                   eventLog, chains, delivered, handlers, eventSeq, emits, completes, created>>

\* POST /checklist: buildBorrowerChecklist(sessionId)
CreateChecklist(sid) ==
    /\ created < MaxCreates
    /\ created' = created + 1
    /\ checklists' = [s \in DOMAIN checklists \cup {sid} |->
                        IF s = sid THEN createChecklist(BORROWER_TASKS)
                        ELSE checklists[s]]
    /\ now' = now + 1
    /\ UNCHANGED <<patched, replayed>>
    /\ UNCHANGED <<lastCall, steps, threw>>
    /\ UNCHANGED <<agents, totalCalls, totalCorrections, callLog, calls, eventLog,
                   chains, sseClients, delivered, handlers, eventSeq, emits, completes>>

\* PATCH /checklist/:sessionId/:itemId with a JSON body
PatchItem(sessionId, itemId, body) ==
    /\ Len(patched) < MaxPatches
    /\ \E r \in {updateChecklistItem(checklists, sessionId, itemId, PatchUpdate(body))} :
          /\ checklists' = r.lists
          /\ patched' = Append(patched, [sessionId |-> sessionId, itemId |-> itemId,
                                          body |-> body, found |-> r.found])
    /\ now' = now + 1
    /\ UNCHANGED <<agents, totalCalls, totalCorrections, callLog, calls, eventLog,
                   chains, sseClients, delivered, handlers, eventSeq, emits, completes,
                   created, lastCall, steps, threw, replayed>>

\* POST /vision-extract. The request orchestrates the vision agent and then,
\* each time the call it awaits has ended, goes on to its next await:
\*   after the vision call:   emit vision:extracted (depth 0), call watchdog
\*   after the watchdog call: emit watchdog:matched (depth 1), call freedom
\*   after the freedom call:  emit freedom:updated (depth 2) when the call
\*                            returned, then completeChain
\* Its calls are the controller's calls (by = 0), in this order.
RequestChain == 1
RequestCalls == {c \in 1..Len(calls) : calls[c].by = 0}
RequestStage == Cardinality(RequestCalls)
RequestCall == CHOOSE c \in RequestCalls : \A d \in RequestCalls : d <= c
\* The request is about to resume: the call it awaits has ended, and it
\* has not reached its end (a failed vision call ends it with a 500)
RequestReady ==
    /\ RequestCalls # {}
    /\ IsDone(calls[RequestCall])
    /\ \/ RequestStage = 1 /\ calls[RequestCall].pc = "returned"
       \/ RequestStage = 2
       \/ RequestStage = 3 /\ completes = 0

RequestEvent(source, depth) ==
    [source |-> source, chainId |-> RequestChain, depth |-> depth,
     summary |-> "summary " \o ToString(emits + 1), payload |-> ObjectPayload,
     triggeredBy |-> 0, durationMs |-> 0]

\* The request takes its first step: orchestrate('vision', ..., { maxRetries: 1 })
VisionExtractStarts ==
    /\ calls = <<>>
    /\ StartCall("vision", 1, FALSE, "none", FALSE)

\* emitAgentEvent, then orchestrate up to its first await
VisionExtractEmitsAndCalls(type, source, depth, agentName, failing) ==
    /\ \E r \in {emit(Bus, type, RequestEvent(source, depth), failing)} :
          /\ SetBus([r.bus EXCEPT !.checklists = MarkInProgress(@, agentName)])
          /\ lastCall' = [op |-> "emit", chainId |-> RequestChain, depth |-> depth,
                          ok |-> r.ok]
    /\ calls' = Append(calls, NewCall(agentName, 1, FALSE, "none", TRUE, 0))
    /\ emits' = emits + 1
    /\ UNCHANGED completes

\* The last part: emitAgentEvent when the freedom call returned, then
\* agentBus.completeChain(chainId)
VisionExtractCompletes(failing) ==
    /\ \E B \in {IF calls[RequestCall].pc = "returned"
                 THEN emit(Bus, "freedom:updated", RequestEvent("freedom", 2),
                           failing).bus
                 ELSE [Bus EXCEPT !.steps = <<>>]} :
          \E C \in {completeChain(B, RequestChain, failing)} : SetBus(C)
    /\ lastCall' = [op |-> "completeChain", chainId |-> RequestChain, depth |-> 0,
                    ok |-> TRUE]
    /\ emits' = emits + (IF calls[RequestCall].pc = "returned" THEN 1 ELSE 0)
    /\ completes' = completes + 1
    /\ UNCHANGED calls

\* The request resumes after the call it awaited
VisionExtractResumes(failing) ==
    /\ RequestReady
    /\ IF RequestStage = 1
       THEN VisionExtractEmitsAndCalls("vision:extracted", "vision", 0, "watchdog",
                                       failing)
       ELSE IF RequestStage = 2
       THEN VisionExtractEmitsAndCalls("watchdog:matched", "watchdog", 1, "freedom",
                                       failing)
       ELSE VisionExtractCompletes(failing)
    /\ now' = now + 1
    /\ UNCHANGED <<patched, replayed>>
    /\ UNCHANGED <<agents, totalCalls, totalCorrections, callLog, created>>

\* ----------------------------------------------------------------- inputs
CallAgents == {"freedom", "watchdog"}
RetryChoices == 0..MaxRetriesBound
ChainIds == 1..MaxChains
Depths == 0..(MAX_CHAIN_DEPTH + 1)
EventDurations == {0, 200}
NaturalSource(type) ==
    IF type = "vision:extracted" THEN "vision"
    ELSE IF type = "watchdog:matched" THEN "watchdog"
    ELSE IF type = "freedom:updated" THEN "freedom"
    ELSE IF type = "letter:generated" THEN "letter"
    ELSE IF type = "call-script:generated" THEN "call-script"
    ELSE IF type = "debate:verdict" THEN "debate"
    ELSE "coach"
PayloadsOf(type) ==
    IF type = "debate:verdict" THEN {ObjectPayload, NoPayload} ELSE {ObjectPayload}

\* ---------------------------------------------------------- specifications
\* One orchestrate call, under every option and every outcome
OrchNext ==
    \/ \E a \in CallAgents, m \in RetryChoices, rf \in BOOLEAN, p \in Projectors,
          sk \in BOOLEAN : calls = <<>> /\ StartCall(a, m, rf, p, sk)
    \/ \E c \in 1..Len(calls), o \in WorkOutcomes, d \in Durations :
          WorkCompletes(c, o, d, {})
    \/ \E c \in 1..Len(calls), j \in JudgeOutcomes, d \in Durations :
          JudgeCompletes(c, j, d, {})

OrchSpec == Init /\ [][OrchNext]_vars

\* Every external call completes
OrchFairSpec ==
    /\ Init /\ [][OrchNext]_vars
    /\ WF_vars(\E c \in 1..Len(calls), o \in WorkOutcomes, d \in Durations :
                   WorkCompletes(c, o, d, {}))
    /\ WF_vars(\E c \in 1..Len(calls), j \in JudgeOutcomes, d \in Durations :
                   JudgeCompletes(c, j, d, {}))

\* Concurrent orchestrate calls as the controllers and the test harness make
\* them: maxRetries 1 (or none given), no retryFn, no outputToString
SystemOutcomes ==
    {[kind |-> "return", value |-> "result", isError |-> FALSE],
     [kind |-> "throw", value |-> "e1", isError |-> TRUE]}
SystemJudges ==
    {j \in JudgeOutcomes : j.kind = "text" /\ j.text.body = "object"}

Next ==
    \/ \E a \in CallAgents, sk \in BOOLEAN :
          Len(calls) < MaxOverlap /\ StartCall(a, DEFAULT_MAX_RETRIES, FALSE, "none", sk)
    \/ \E c \in 1..Len(calls), o \in SystemOutcomes, d \in Durations :
          WorkCompletes(c, o, d, {})
    \/ \E c \in 1..Len(calls), j \in SystemJudges, d \in Durations :
          JudgeCompletes(c, j, d, {})

Spec == Init /\ [][Next]_vars

\* The bus, its subscribers, its trigger handlers and the calls they make
BusNext ==
    \/ \E type \in BusEventTypes, chainId \in ChainIds, depth \in Depths,
          durationMs \in EventDurations, failing \in SUBSET ClientIds :
          \E payload \in PayloadsOf(type) :
             /\ emits < MaxBusEmits
             /\ ControllerEmit(type, NaturalSource(type), chainId, depth, payload,
                               durationMs, failing)
    \/ \E chainId \in ChainIds, failing \in SUBSET ClientIds :
          ControllerCompleteChain(chainId, failing)
    \/ \E h \in 1..Len(handlers) : HandlerImported(h)
    \/ \E c \in 1..Len(calls), o \in SystemOutcomes, d \in Durations,
          failing \in SUBSET ClientIds : WorkCompletes(c, o, d, failing)
    \/ \E kind \in SubscriberKinds : Len(delivered) < MaxLoneSubs /\ Subscribe(kind)
    \/ \E s \in ClientIds : Unsubscribe(s)

BusSpec == Init /\ [][BusNext]_vars

\* One root event at depth 0 and the chain it triggers; every external call
\* (a dynamic import, a unit of work) completes
ChainNext ==
    \/ \E type \in BusEventTypes, chainId \in ChainIds, durationMs \in EventDurations :
          \E payload \in PayloadsOf(type) :
             /\ emits = 0
             /\ ControllerEmit(type, NaturalSource(type), chainId, 0, payload,
                               durationMs, {})
    \/ \E h \in 1..Len(handlers) : HandlerImported(h)
    \/ \E c \in 1..Len(calls), o \in WorkOutcomes, d \in Durations :
          WorkCompletes(c, o, d, {})

ChainFairSpec ==
    /\ Init /\ [][ChainNext]_vars
    /\ WF_vars(\E h \in 1..Len(handlers) : HandlerImported(h))
    /\ WF_vars(\E c \in 1..Len(calls), o \in WorkOutcomes, d \in Durations :
                   WorkCompletes(c, o, d, {}))

\* The calls of one agent made one after the other, as the requests of one
\* client make them: each starts when the one before has ended
SeqJudges == {j \in JudgeOutcomes : j.kind = "throw" \/ j.text.body = "object"}
SeqNext ==
    \/ \E sk \in BOOLEAN :
          /\ \A c \in 1..Len(calls) : IsDone(calls[c])
          /\ StartCall("freedom", DEFAULT_MAX_RETRIES, FALSE, "none", sk)
    \/ \E c \in 1..Len(calls), o \in SystemOutcomes, d \in Durations :
          WorkCompletes(c, o, d, {})
    \/ \E c \in 1..Len(calls), j \in SeqJudges, d \in Durations :
          JudgeCompletes(c, j, d, {})

SeqSpec == Init /\ [][SeqNext]_vars

\* Several emissions by controllers on the chains of the trigger table, with
\* the handlers they start running in between; nobody subscribed
\* What the controllers emit: the root of a chain, and events at the deepest
\* level the bus accepts and one beyond it
TrackEmits ==
    {[type |-> "vision:extracted", depth |-> 0],
     [type |-> "freedom:updated", depth |-> MAX_CHAIN_DEPTH],
     [type |-> "freedom:updated", depth |-> MAX_CHAIN_DEPTH + 1]}
\* The handlers' agents answer, always taking the same time
TrackOutcomes == {o \in SystemOutcomes : o.kind = "return"}
TrackDurations == {d \in Durations : \A x \in Durations : d <= x}
Roots == {i \in 1..Len(eventLog) : eventLog[i].depth = 0}
\* A chain id is a fresh one (newChainId) or one already in use
TrackNext ==
    \/ \E e \in TrackEmits, chainId \in ChainIds, durationMs \in EventDurations :
          /\ chainId <= Cardinality(DOMAIN chains) + 1
          /\ e.depth = 0 => Cardinality(Roots) < MaxRoots
          /\ ControllerEmit(e.type, NaturalSource(e.type), chainId, e.depth,
                            ObjectPayload, durationMs, {})
    \/ \E h \in 1..Len(handlers) : HandlerImported(h)
    \/ \E c \in 1..Len(calls), o \in TrackOutcomes, d \in TrackDurations :
          WorkCompletes(c, o, d, {})

TrackSpec == Init /\ [][TrackNext]_vars

\* Emissions and completeChain calls by controllers while subscribers come
\* and go and a checklist exists; the handlers they start are left waiting
GuardNext ==
    \/ \E e \in TrackEmits, chainId \in ChainIds, durationMs \in EventDurations,
          failing \in SUBSET ClientIds :
          /\ chainId <= Cardinality(DOMAIN chains) + 1
          /\ ControllerEmit(e.type, NaturalSource(e.type), chainId, e.depth,
                            ObjectPayload, durationMs, failing)
    \/ \E kind \in SubscriberKinds : Len(delivered) < MaxLoneSubs /\ Subscribe(kind)
    \/ \E s \in ClientIds : Unsubscribe(s)
    \/ \E sid \in 1..MaxSessions : created < MaxSessions /\ CreateChecklist(sid)
    \/ \E chainId \in ChainIds, failing \in SUBSET ClientIds :
          ControllerCompleteChain(chainId, failing)

GuardSpec == Init /\ [][GuardNext]_vars

\* One emission by a controller and the chain its handlers run, delivered to
\* subscribers that come and go and whose callbacks may fail; a checklist
\* may exist
DeliverEmits == {"vision:extracted", "letter:generated"}
DeliverNext ==
    \/ \E type \in DeliverEmits, failing \in SUBSET ClientIds :
          /\ emits < MaxBusEmits
          /\ ControllerEmit(type, NaturalSource(type), 1, 0, ObjectPayload, 0, failing)
    \/ \E kind \in SubscriberKinds : Subscribe(kind)
    \/ \E s \in ClientIds : Unsubscribe(s)
    \/ \E sid \in 1..MaxSessions : created < MaxSessions /\ CreateChecklist(sid)
    \/ \E h \in 1..Len(handlers) : HandlerImported(h)
    \/ \E c \in 1..Len(calls), o \in TrackOutcomes, d \in TrackDurations,
          failing \in SUBSET ClientIds : WorkCompletes(c, o, d, failing)

DeliverSpec == Init /\ [][DeliverNext]_vars

\* Checklists that are created, re-created and patched by hand while an
\* agent of their items is orchestrated (the call is left waiting) and
\* controllers emit events
ListEmits ==
    {[type |-> "freedom:updated", source |-> "freedom"],
     [type |-> "letter:generated", source |-> "letter"],
     [type |-> "letter:generated", source |-> "simulator"]}
PatchBodies ==
    {[status |-> "pending"], [progress |-> 50], [decision |-> "keep"],
     [status |-> "completed", result |-> "by hand"]}
\* The item ids a client has seen for the agents it follows, and one that
\* no item has
PatchTargets ==
    {0} \cup {checklists[sid][i].id : sid \in DOMAIN checklists,
                                      i \in {j \in 1..Len(BORROWER_TASKS) :
                                                BORROWER_TASKS[j] \in {"freedom", "letter"}}}
ListNext ==
    \/ \E sid \in 1..MaxCreates : CreateChecklist(sid)
    \/ \E sid \in 1..MaxCreates, itemId \in PatchTargets, body \in PatchBodies :
          PatchItem(sid, itemId, body)
    \/ calls = <<>> /\ StartCall("freedom", DEFAULT_MAX_RETRIES, FALSE, "none", TRUE)
    \/ \E e \in ListEmits :
          emits < MaxRoots /\ ControllerEmit(e.type, e.source, 1, 0, ObjectPayload, 0, {})

ListSpec == Init /\ [][ListNext]_vars

\* Checklists of up to two sessions, created first; then controllers and
\* trigger handlers orchestrate the agents of their items, the calls return
\* or fail, and events are emitted
AutoEmits == {"watchdog:matched", "letter:generated"}
AutoNext ==
    \/ \E sid \in 1..MaxCreates :
          calls = <<>> /\ emits = 0 /\ sid = created + 1 /\ CreateChecklist(sid)
    \/ \E a \in CallAgents :
          /\ Len(calls) < MaxOverlap
          /\ StartCall(a, DEFAULT_MAX_RETRIES, FALSE, "none", TRUE)
    \/ \E c \in 1..Len(calls), o \in SystemOutcomes, d \in TrackDurations :
          WorkCompletes(c, o, d, {})
    \/ \E type \in AutoEmits :
          /\ emits < MaxBusEmits
          /\ ControllerEmit(type, NaturalSource(type), 1, 0, ObjectPayload, 0, {})
    \/ \E h \in 1..Len(handlers) : HandlerImported(h)

AutoSpec == Init /\ [][AutoNext]_vars

\* One vision-extract request and the trigger handlers its events start,
\* running interleaved, in front of a feed subscriber; the calls of the
\* request return or throw, those of the handlers return, and the request
\* resumes as soon as the call it awaits has ended
VisionNext ==
    \/ VisionExtractStarts
    \/ VisionExtractResumes({})
    \/ \E kind \in {"feed"} : calls = <<>> /\ Len(delivered) < MaxLoneSubs /\ Subscribe(kind)
    \/ \E h \in 1..Len(handlers) : ~RequestReady /\ HandlerImported(h)
    \/ \E c \in 1..Len(calls), o \in SystemOutcomes, d \in TrackDurations :
          /\ ~RequestReady
          /\ calls[c].by # 0 => o \in TrackOutcomes
          /\ WorkCompletes(c, o, d, {})
    \/ \E c \in 1..Len(calls), j \in SystemJudges, d \in TrackDurations :
          ~RequestReady /\ JudgeCompletes(c, j, d, {})

VisionSpec == Init /\ [][VisionNext]_vars

\* The orchestrator after many calls: one short of a full call log, every
\* call so far a freedom call that succeeded with its quality check skipped.
\* The calls that follow overlap as the controllers' calls do.
WarmCalls == MAX_LOG_SIZE - 1
PastLog(n) ==
    [id |-> 0 - n, agent |-> "freedom", timestamp |-> n, durationMs |-> 100,
     success |-> TRUE, qualityScore |-> SCORE_SKIPPED, qualityReasoning |-> "Skipped",
     retryCount |-> 0, outputSummary |-> "json:result", correctionApplied |-> UNDEF,
     error |-> UNDEF]
PastLogs(n) == [i \in 1..n |-> PastLog(i)]
\* The health record of freedom before the end of call n: the rolling
\* averages of equal values are that value
PastHealth(n) ==
    IF n = 0 THEN createEmptyHealth("freedom")
    ELSE [createEmptyHealth("freedom") EXCEPT
             !.totalCalls = n, !.avgQualityScore = SCORE_SKIPPED,
             !.avgLatencyMs = 100, !.lastCallAt = n]
\* state.callLog and state.agents after the end of call n
Warm(n) ==
    [callLog |-> PastLogs(n),
     agents |-> [a \in AGENT_NAMES |->
                    IF a = "freedom" /\ n > 0
                    THEN updateHealth(PastHealth(n - 1), PastLogs(n), PastLog(n))
                    ELSE createEmptyHealth(a)]]
WarmInit ==
    /\ \E w \in {Warm(WarmCalls)} : callLog = w.callLog /\ agents = w.agents
    /\ totalCalls = WarmCalls
    /\ now = WarmCalls + 1
    /\ totalCorrections = 0
    /\ calls = <<>>
    /\ checklists = <<>>
    /\ eventLog = <<>>
    /\ chains = <<>>
    /\ sseClients = <<>>
    /\ delivered = <<>>
    /\ handlers = <<>>
    /\ eventSeq = 0
    /\ emits = 0
    /\ completes = 0
    /\ created = 0
    /\ lastCall = NoCall
    /\ threw = <<>>
    /\ steps = <<>>
    /\ patched = <<>>
    /\ replayed = <<>>

WarmSpec == WarmInit /\ [][Next]_vars

\* The bus after many emissions: one short of a full event log, every event
\* so far a letter:generated event at depth 0 on a chain of its own (the
\* letter endpoint passes no chain id), nobody subscribed. Then controllers
\* emit accepted and rejected events and complete chains while a subscriber
\* connects.
PastEmits == MAX_EVENT_LOG - 1
PastEvent(n) ==
    [id |-> n, type |-> "letter:generated", source |-> "letter", chainId |-> 0 - n,
     depth |-> 0, timestamp |-> n, summary |-> "summary " \o ToString(n),
     payload |-> ObjectPayload, durationMs |-> 0, triggeredBy |-> 0]
PastChains ==
    [c \in {0 - n : n \in 1..PastEmits} |-> trackChain(<<>>, PastEvent(0 - c))[c]]
FullInit ==
    /\ eventLog = [n \in 1..PastEmits |-> PastEvent(n)]
    /\ chains = PastChains
    /\ eventSeq = PastEmits
    /\ now = PastEmits + 1
    /\ agents = [a \in AGENT_NAMES |-> createEmptyHealth(a)]
    /\ totalCalls = 0
    /\ totalCorrections = 0
    /\ callLog = <<>>
    /\ calls = <<>>
    /\ checklists = <<>>
    /\ sseClients = <<>>
    /\ delivered = <<>>
    /\ handlers = <<>>
    /\ emits = 0
    /\ completes = 0
    /\ created = 0
    /\ lastCall = NoCall
    /\ threw = <<>>
    /\ steps = <<>>
    /\ patched = <<>>
    /\ replayed = <<>>
FullEmits ==
    {[type |-> "letter:generated", depth |-> 0],
     [type |-> "freedom:updated", depth |-> 0],
     [type |-> "freedom:updated", depth |-> MAX_CHAIN_DEPTH + 1]}
FullNext ==
    \/ \E e \in FullEmits, chainId \in ChainIds :
          ControllerEmit(e.type, NaturalSource(e.type), chainId, e.depth, ObjectPayload,
                         0, {})
    \/ \E chainId \in ChainIds : ControllerCompleteChain(chainId, {})
    \/ \E kind \in SubscriberKinds : Len(delivered) < MaxLoneSubs /\ Subscribe(kind)

FullSpec == FullInit /\ [][FullNext]_vars

\* The feed: clients connect to GET /feed and disconnect at any moment while
\* controllers emit accepted and rejected events and complete chains, and
\* writes to a client may fail. The log holds no event yet, or as many as
\* the backlog replays, one less or one more (letter:generated events at
\* depth 0, each on a chain of its own).
FeedPasts == {0, FEED_BACKLOG - 1, FEED_BACKLOG, FEED_BACKLOG + 1}
PastChainsOf(n) ==
    [c \in {0 - i : i \in 1..n} |-> trackChain(<<>>, PastEvent(0 - c))[c]]
FeedInit ==
    /\ \E n \in FeedPasts :
          /\ eventLog = [i \in 1..n |-> PastEvent(i)]
          /\ chains = PastChainsOf(n)
          /\ eventSeq = n
          /\ now = n + 1
    /\ agents = [a \in AGENT_NAMES |-> createEmptyHealth(a)]
    /\ totalCalls = 0
    /\ totalCorrections = 0
    /\ callLog = <<>>
    /\ calls = <<>>
    /\ checklists = <<>>
    /\ sseClients = <<>>
    /\ delivered = <<>>
    /\ handlers = <<>>
    /\ emits = 0
    /\ completes = 0
    /\ created = 0
    /\ lastCall = NoCall
    /\ threw = <<>>
    /\ steps = <<>>
    /\ patched = <<>>
    /\ replayed = <<>>
FeedNext ==
    \/ Subscribe("feed")
    \/ \E s \in ClientIds : Unsubscribe(s)
    \/ \E e \in FullEmits, failing \in SUBSET ClientIds :
          ControllerEmit(e.type, NaturalSource(e.type), RequestChain, e.depth,
                         ObjectPayload, 0, failing)
    \/ \E chainId \in ChainIds, failing \in SUBSET ClientIds :
          ControllerCompleteChain(chainId, failing)

FeedSpec == FeedInit /\ [][FeedNext]_vars

\* ------------------------------------------------------------------ claims
Ended == {c \in 1..Len(calls) : IsDone(calls[c])}
LogsOf(c) == {i \in 1..Len(callLog) : callLog[i].id = c}

\* C1: every orchestrate call, returning or throwing, appends exactly one
\* AgentCallLog, adds 1 to state.totalCalls and updates the health of its
\* agent exactly once, after the append; no other agent's record changes.
\* The step that ends a call does all of it, and no other step touches the
\* call log, totalCalls or a health record.
C1_EndOfCall ==
    LET fin == {c \in 1..Len(calls) : ~IsDone(calls[c]) /\ IsDone(calls'[c])}
    IN /\ Cardinality(fin) <= 1
       /\ \A c \in 1..Len(calls) : IsDone(calls[c]) => calls'[c] = calls[c]
       /\ fin = {} => UNCHANGED <<callLog, totalCalls, agents>>
       /\ \A c \in fin :
            LET a == calls'[c].agent
                entry == calls'[c].log
            IN /\ entry.id = c /\ entry.agent = a
               /\ entry.success = (calls'[c].pc = "returned")
               /\ callLog' = Append(callLog, entry)
               /\ totalCalls' = totalCalls + 1
               /\ agents'[a].totalCalls = agents[a].totalCalls + 1
               /\ agents'[a] = updateHealth(agents[a], callLog', entry)
               /\ \A b \in AGENT_NAMES \ {a} : agents'[b] = agents[b]
C1_OneLogPerCall ==
    /\ [](\A c \in 1..Len(calls) :
            Cardinality(LogsOf(c)) = IF IsDone(calls[c]) THEN 1 ELSE 0)
    /\ [](totalCalls = Cardinality(Ended) /\ Len(callLog) = totalCalls)
    /\ [][C1_EndOfCall]_vars
\* Two calls have ended, one thrown after its retry and one returned after a
\* retry, for different agents
C1_Witness ==
    \E c, d \in 1..Len(calls) :
        /\ calls[c].pc = "thrown" /\ calls[c].retryCount = 1
        /\ calls[d].pc = "returned" /\ calls[d].retryCount = 1
        /\ calls[c].agent # calls[d].agent
        /\ totalCalls = 2

\* Every event the bus has handed to anyone: its log, its chains, its
\* subscribers, its trigger handlers
EventsSeen ==
    {eventLog[i] : i \in 1..Len(eventLog)}
    \cup UNION {{chains[ch].events[i] : i \in 1..Len(chains[ch].events)} :
                    ch \in DOMAIN chains}
    \cup UNION {{delivered[k][i] : i \in 1..Len(delivered[k])} :
                    k \in DOMAIN delivered}
    \cup {handlers[h].event : h \in 1..Len(handlers)}

\* C2: the bus never delivers an event whose depth is above 3: none is in the
\* event log, in a chain, in what a subscriber received or in the hands of a
\* registered handler, and every emit that was accepted got a sequence number
C2_NoEventDeeperThanThree ==
    /\ \A e \in EventsSeen : e.depth <= 3
    /\ Len(eventLog) = eventSeq
\* The controller emitted at depth 4 while a subscriber was listening, and
\* the bus accepted nothing
C2_Witness ==
    /\ emits = 1 /\ eventSeq = 0 /\ eventLog = <<>>
    /\ sseClients # <<>> /\ handlers = <<>>

\* The events of a chain that handlers emitted (all but the root)
InFlight == {h \in 1..Len(handlers) : handlers[h].pc \in {"import", "call"}}
Quiescent == InFlight = {}

\* C3: after one root event at depth 0 the handlers emit finitely many
\* further events (at most three in the chain, handlers run at most once per
\* event), none deeper than 3, and the system reaches a state with no handler
\* in flight once the external calls complete
C3_ChainTerminates ==
    /\ [](/\ eventSeq <= 3 /\ Len(handlers) <= eventSeq
          /\ \A e \in EventsSeen : e.depth \in 0..3
          /\ \A ch \in DOMAIN chains : Len(chains[ch].events) <= 3)
    /\ (~Quiescent) ~> Quiescent
    /\ <>[]Quiescent
\* A root vision event has been followed through watchdog and freedom to a
\* completed chain of three events with nothing in flight
C3_Witness ==
    /\ Quiescent
    /\ \E ch \in DOMAIN chains :
          /\ chains[ch].status = "completed"
          /\ Len(chains[ch].events) = 3
          /\ chains[ch].events[1].depth = 0
          /\ chains[ch].events[3].depth = 2

\* What the unit of work did so far in a call, and the error text of its
\* last throw
Throws(f) == {i \in 1..Len(f.outcomes) : f.outcomes[i].kind = "throw"}
Returns(f) == {i \in 1..Len(f.outcomes) : f.outcomes[i].kind = "return"}
LastThrowText(f) == ErrorText(f.outcomes[Len(f.outcomes)])

\* C4: when the unit of work throws on every attempt and maxRetries = m,
\* the work is invoked exactly m + 1 times and orchestrate throws an error
\* naming the agent and m + 1 attempts; the one CallLog has success = false,
\* qualityScore = 0, retryCount = m, error = the last error text, and the
\* agent's lastError becomes that text.
C4_AllAttemptsThrow ==
    \A c \in 1..Len(calls) :
        LET f == calls[c] IN
        (Len(f.outcomes) > 0 /\ Returns(f) = {}) =>
            /\ Len(f.trace) <= f.maxRetries + 1
            /\ Len(f.outcomes) = f.maxRetries + 1 <=> IsDone(f)
            /\ IsDone(f) =>
                 /\ f.pc = "thrown"
                 /\ f.thrown = [agent |-> f.agent, attempts |-> f.maxRetries + 1,
                                lastError |-> LastThrowText(f)]
                 /\ Cardinality(LogsOf(c)) = 1
                 /\ f.log.success = FALSE /\ f.log.qualityScore = 0
                 /\ f.log.retryCount = f.maxRetries
                 /\ f.log.error = LastThrowText(f)
                 /\ agents[f.agent].lastError = LastThrowText(f)

\* C5: with no retryFn, when the work throws on its first j attempts
\* (1 <= j <= maxRetries) and then returns, the same function was re-invoked
\* each time, nothing more is invoked, and the call ends with a success log
\* of retryCount = j and totalCorrections grown by j.
C5_RetryAfterThrow ==
    \A c \in 1..Len(calls) :
        LET f == calls[c] IN
        \A j \in 1..f.maxRetries :
            (/\ ~f.retryFn /\ IsDone(f)
             /\ Len(f.outcomes) > j
             /\ \A i \in 1..j : f.outcomes[i].kind = "throw"
             /\ f.outcomes[j + 1].kind = "return") =>
                /\ Len(f.outcomes) = j + 1
                /\ \A i \in 1..Len(f.trace) : f.trace[i].fn = "agentFn"
                /\ f.pc = "returned"
                /\ f.log.success /\ f.log.retryCount = j
                /\ totalCorrections = j

\* C6: with no retryFn, when the work does not throw, it is invoked exactly
\* once whatever the evaluator returns and whatever maxRetries is; the call
\* ends with success = true, the evaluator's score and retryCount = 0, and
\* totalCorrections does not change.
C6_NoCorrectiveRetry ==
    \A c \in 1..Len(calls) :
        LET f == calls[c] IN
        (~f.retryFn /\ Throws(f) = {}) =>
            /\ Len(f.trace) = 1
            /\ totalCorrections = 0
            /\ IsDone(f) =>
                 /\ f.pc = "returned" /\ f.log.success
                 /\ f.log.retryCount = 0
                 /\ f.log.qualityScore = f.quality.score

\* C7: with maxRetries = m the work is invoked at most m + 1 times in all,
\* attempts are numbered 0..m, a critical verdict on attempt m is not retried
\* but returned as a success, and every call that started returns or throws
\* once the external calls complete.
C7_BoundedAttempts ==
    /\ [](\A c \in 1..Len(calls) :
            LET f == calls[c] IN
            /\ Len(f.trace) <= f.maxRetries + 1
            /\ Len(f.outcomes) <= f.maxRetries + 1
            /\ f.attempt \in 0..f.maxRetries
            /\ (f.quality.hasCriticalIssue /\ f.attempt = f.maxRetries) =>
                  (f.pc = "returned" /\ f.log.success))
    /\ (calls # <<>>) ~> (\A c \in 1..Len(calls) : IsDone(calls[c]))
\* A call with a retryFn used all of its m + 1 = 3 attempts and returned the
\* last one although its verdict was critical
C7_Witness ==
    \E c \in 1..Len(calls) :
        /\ calls[c].maxRetries = 2 /\ calls[c].retryFn
        /\ Len(calls[c].trace) = 3
        /\ calls[c].quality.hasCriticalIssue
        /\ calls[c].pc = "returned"

\* C8: when the judge call throws or answers with text that cannot be parsed,
\* evaluateQuality gives its default verdict (65 on a throw, 70 on unparsable
\* text) with hasCriticalIssue = false; the attempt, whose work succeeded, is
\* not retried: it is logged with success = true and that score, and returned.
C8_EvaluatorFailureAbsorbed ==
    \A c \in 1..Len(calls) :
        LET f == calls[c]
            unparsable == f.judge.kind = "text" /\ f.judge.text.body = "garbage"
        IN (f.judge.kind = "throw" \/ unparsable) =>
              /\ f.quality.score = IF unparsable THEN 70 ELSE 65
              /\ ~f.quality.hasCriticalIssue
              /\ f.pc = "returned"
              /\ f.log.success /\ f.log.qualityScore = f.quality.score
              /\ f.log.retryCount = f.attempt
              /\ Len(f.trace) = f.attempt + 1
\* The judge threw in the first attempt of a call that had retries left and a
\* retryFn, and the call returned
C8_Witness ==
    \E c \in 1..Len(calls) :
        /\ calls[c].judge.kind = "throw"
        /\ calls[c].retryFn /\ calls[c].maxRetries = 2 /\ calls[c].attempt = 0
        /\ calls[c].pc = "returned"

\* C9: orchestrate throws only when the unit of work itself threw on the last
\* permitted attempt; an error of the projection or of the evaluation does
\* not make a failed attempt, a retry or a thrown error out of an attempt
\* whose work returned.
C9_ThrowsOnlyWhenWorkThrew ==
    \A c \in 1..Len(calls) :
        LET f == calls[c]
            n == Len(f.outcomes)
        IN /\ f.pc = "thrown" =>
                (n = f.maxRetries + 1 /\ f.outcomes[n].kind = "throw")
           /\ \A i \in Returns(f) :
                 i < Len(f.trace) => f.trace[i + 1].fn = "retryFn"

\* C10: after the N-th call of an agent, k of which succeeded, the agent's
\* successRate is round(100 * k / N).
C10_SuccessRate ==
    \A a \in AGENT_NAMES :
        LET N == Cardinality({c \in Ended : calls[c].agent = a})
            k == Cardinality({c \in Ended : calls[c].agent = a
                                            /\ calls[c].pc = "returned"})
        IN N > 0 => agents[a].successRate = Round(100 * k, N)

\* C11: in every reachable state the status of every agent's health record
\* is the threshold function of its successRate and avgQualityScore: failing
\* under 50 / 40, else degraded under 80 / 60, else healthy (strict
\* inequalities), for agents that were never called as well.
C11_StatusByThresholds ==
    \A a \in AGENT_NAMES :
        LET h == agents[a]
        IN h.status = IF h.successRate < 50 \/ h.avgQualityScore < 40 THEN "failing"
                      ELSE IF h.successRate < 80 \/ h.avgQualityScore < 60
                           THEN "degraded"
                      ELSE "healthy"

\* The CallLogs of an agent, oldest first, and the sum of a field over them
LogsOfAgent(a) == SelectSeq(callLog, LAMBDA l : l.agent = a)
RECURSIVE SumQuality(_)
SumQuality(logs) ==
    IF logs = <<>> THEN 0 ELSE Head(logs).qualityScore + SumQuality(Tail(logs))
RECURSIVE SumDuration(_)
SumDuration(logs) ==
    IF logs = <<>> THEN 0 ELSE Head(logs).durationMs + SumDuration(Tail(logs))

\* C12: after any sequence of calls of an agent, avgQualityScore and
\* avgLatencyMs are the arithmetic means, rounded to the nearest integer, of
\* the qualityScore and durationMs of all its completed CallLogs.
C12_AveragesAreMeans ==
    \A a \in AGENT_NAMES :
        LET logs == LogsOfAgent(a)
        IN Len(logs) > 0 =>
              /\ agents[a].avgQualityScore = Round(SumQuality(logs), Len(logs))
              /\ agents[a].avgLatencyMs = Round(SumDuration(logs), Len(logs))

\* The accepted events a given event caused
Downstream(e) == {i \in 1..Len(eventLog) : eventLog[i].triggeredBy = e.id}

AcceptedOf(c) == SelectSeq(eventLog, LAMBDA e : e.chainId = c)
RECURSIVE SumEventDurations(_)
SumEventDurations(evs) ==
    IF evs = <<>> THEN 0 ELSE Head(evs).durationMs + SumEventDurations(Tail(evs))

\* C14: in every reachable state the ChainSummary of every chain id lists
\* exactly the accepted events of that chain id, in emission order;
\* totalAgents is the number of distinct sources among them and
\* totalDurationMs the sum of their durationMs; rejected emissions add nothing
\* and create no chain.
C14_ChainSummaryTracksAccepted ==
    /\ DOMAIN chains = {eventLog[i].chainId : i \in 1..Len(eventLog)}
    /\ \A c \in DOMAIN chains :
          LET evs == AcceptedOf(c)
          IN /\ chains[c].chainId = c
             /\ chains[c].events = evs
             /\ chains[c].totalAgents =
                    Cardinality({evs[i].source : i \in 1..Len(evs)})
             /\ chains[c].totalDurationMs = SumEventDurations(evs)
\* A chain holds four accepted events at depths 0..3 from three distinct
\* agents, and a controller's emission at depth 4 on it has just been rejected
C14_Witness ==
    /\ lastCall.op = "emit" /\ lastCall.depth = 4 /\ ~lastCall.ok
    /\ lastCall.chainId \in DOMAIN chains
    /\ LET ch == chains[lastCall.chainId]
       IN /\ Len(ch.events) = 4
          /\ \A i \in 1..4 : ch.events[i].depth = i - 1
          /\ ch.totalAgents = 3

\* C15: emit with depth > 3 returns false and changes nothing: the event
\* log, the chain map and the subscriber set are unchanged, no subscriber, no
\* trigger handler and no checklist observer is invoked.
C15_RejectedEmit ==
    (emits' = emits + 1 /\ lastCall'.op = "emit" /\ lastCall'.depth > 3) =>
        /\ ~lastCall'.ok
        /\ UNCHANGED <<eventLog, eventSeq, chains, sseClients, delivered, handlers,
                       checklists, calls, callLog, agents>>
C15_RejectedEmitChangesNothing == [][C15_RejectedEmit]_vars
\* An emission at depth 4 was rejected on a chain that already has an event,
\* with a subscriber listening and a checklist with an open freedom item
C15_Witness ==
    /\ lastCall.op = "emit" /\ lastCall.depth = 4 /\ ~lastCall.ok
    /\ lastCall.chainId \in DOMAIN chains
    /\ sseClients # <<>>
    /\ \E sid \in DOMAIN checklists : \E i \in 1..Len(checklists[sid]) :
          /\ checklists[sid][i].assignedAgent = "freedom"
          /\ checklists[sid][i].status # "completed"

\* The chain-summary events of chain c that subscriber k received
SummariesFor(k, c) ==
    {i \in 1..Len(delivered[k]) :
        delivered[k][i].depth = -1 /\ delivered[k][i].chainId = c}

\* C16: completeChain is idempotent on what subscribers see: however often
\* it is called on a chain id, by the freedom:updated handler or a controller,
\* a subscriber receives the chain-summary event of that chain only once.
C16_SummaryDeliveredOnce ==
    \A k \in DOMAIN delivered : \A c \in ChainIds :
        Cardinality(SummariesFor(k, c)) <= 1

\* C17: completeChain(c) on an existing chain sets its status to completed
\* and stamps completedAt; the summary event (depth -1) goes to the
\* subscribers registered at that moment only: the event log, the chain's
\* events and totals, the trigger handlers and the checklists are unchanged.
\* On an unknown chain id it delivers nothing and changes nothing.
C17_CompleteChainStep ==
    (completes' = completes + 1 /\ lastCall'.op = "completeChain") =>
        LET c == lastCall'.chainId IN
        /\ UNCHANGED <<eventLog, eventSeq, handlers, checklists, calls, callLog,
                       agents>>
        /\ DOMAIN chains' = DOMAIN chains /\ DOMAIN delivered' = DOMAIN delivered
        /\ c \notin DOMAIN chains => UNCHANGED <<chains, sseClients, delivered>>
        /\ c \in DOMAIN chains =>
              /\ chains'[c] = [chains[c] EXCEPT !.status = "completed",
                                                !.completedAt = now]
              /\ \A d \in DOMAIN chains \ {c} : chains'[d] = chains[d]
              /\ \A k \in DOMAIN delivered :
                    IF k \in ClientIds
                    THEN /\ Len(delivered'[k]) = Len(delivered[k]) + 1
                         /\ SubSeq(delivered'[k], 1, Len(delivered[k])) = delivered[k]
                         /\ LET ev == delivered'[k][Len(delivered'[k])]
                            IN /\ ev.depth = -1 /\ ev.chainId = c
                               /\ ev.payload.totalAgents = chains[c].totalAgents
                               /\ ev.payload.totalDurationMs = chains[c].totalDurationMs
                    ELSE delivered'[k] = delivered[k]
C17_CompleteChainFrame == [][C17_CompleteChainStep]_vars
\* A controller completed a chain holding a freedom event while a subscriber
\* listened and a checklist had an open freedom item; the subscriber got the
\* summary and the item is still open
C17_Witness ==
    /\ lastCall.op = "completeChain" /\ lastCall.chainId \in DOMAIN chains
    /\ chains[lastCall.chainId].status = "completed"
    /\ \E k \in ClientIds :
          /\ delivered[k] # <<>>
          /\ delivered[k][Len(delivered[k])].depth = -1
    /\ \E sid \in DOMAIN checklists : \E i \in 1..Len(checklists[sid]) :
          /\ checklists[sid][i].assignedAgent = "freedom"
          /\ checklists[sid][i].status # "completed"

\* C18: every freedom:updated event the bus accepted (depth 0..3) ends its
\* chain: its handler starts no agent call and calls completeChain, so the
\* chain is completed and the subscribers of that moment are called with its
\* chain-summary event.
C18_FreedomUpdatedCompletes ==
    \A i \in 1..Len(eventLog) :
        LET e == eventLog[i] IN
        (e.type = "freedom:updated" /\ e.depth \in 0..3) =>
            /\ chains[e.chainId].status = "completed"
            /\ \A h \in 1..Len(handlers) :
                  handlers[h].event = e => handlers[h].call = 0
            /\ \A k \in ClientIds :
                  \A n \in 1..Len(delivered[k]) :
                     delivered[k][n] = e =>
                        \E m \in (n + 1)..Len(delivered[k]) :
                           /\ delivered[k][m].depth = -1
                           /\ delivered[k][m].chainId = e.chainId

\* C19: a subscriber whose callback threw while an event was being delivered
\* is no longer in the subscriber set, and its callback has not been called
\* again since: the throwing delivery is the last one it received.
C19_ThrowingSubscriberRemoved ==
    \A k \in DOMAIN threw :
        threw[k] > 0 =>
            /\ k \notin ClientIds
            /\ Len(delivered[k]) = threw[k]

\* C20: a subscriber callback that throws while an emitted event is delivered
\* affects nobody else. In every step that emits an event and in which a
\* callback throws, every other registered subscriber is called with the
\* event, the event is the newest of the log and of its chain, the trigger
\* handler of its type and the checklist observer have run, and an emit made
\* by a controller reports no rejection.
ThrewInStep == {k \in ClientIds : threw'[k] # threw[k]}
C20_ThrowingEmitStep ==
    (eventSeq' = eventSeq + 1 /\ ThrewInStep # {}) =>
        LET e == eventLog'[Len(eventLog')] IN
        /\ Len(eventLog') = Len(eventLog) + 1
        /\ e.id = eventSeq'
        /\ e.chainId \in DOMAIN chains'
        /\ chains'[e.chainId].events[Len(chains'[e.chainId].events)] = e
        /\ \A t \in ThrewInStep : \A k \in ClientIds \ {t} :
              /\ Len(delivered'[k]) > Len(delivered[k])
              /\ delivered'[k][Len(delivered[k]) + 1] = e
        /\ e.type \in TriggerTypes =>
              /\ Len(handlers') = Len(handlers) + 1
              /\ handlers'[Len(handlers')].event = e
        /\ checklists' = ChecklistObserver(checklists, e)
        /\ emits' # emits => lastCall'.ok
C20_ThrowAffectsNobodyElse == [][C20_ThrowingEmitStep]_vars

\* A callback threw on an event that a subscriber registered after it also
\* received, and that is in the log
C20_Witness ==
    \E t \in DOMAIN threw, k \in DOMAIN delivered :
        /\ t < k
        /\ threw[t] > 0
        /\ delivered[t][threw[t]].depth >= 0
        /\ \E n \in 1..Len(delivered[k]) : delivered[k][n] = delivered[t][threw[t]]
        /\ \E i \in 1..Len(eventLog) : eventLog[i] = delivered[t][threw[t]]

\* C21: a subscriber receives every accepted event emitted between its
\* subscribe call and the call of its unsubscribe function, once each and in
\* emission order, and none emitted after. Step by step: a step that emits
\* an event appends that event, once, to what every callback registered
\* before the step has received; apart from chain summaries nothing else is
\* ever appended; and a callback that is not registered receives nothing.
Events(got) == SelectSeq(got, LAMBDA e : e.depth >= 0)
C21_DeliveryStep ==
    \A k \in DOMAIN delivered :
        IF k \in ClientIds /\ eventSeq' = eventSeq + 1
        THEN Events(delivered'[k]) = Append(Events(delivered[k]), eventLog'[Len(eventLog')])
        ELSE IF k \in ClientIds
        THEN Events(delivered'[k]) = Events(delivered[k])
        ELSE delivered'[k] = delivered[k]
C21_SubscriberSeesItsWindow == [][C21_DeliveryStep]_vars

\* A subscriber registered after the first event and unsubscribed before the
\* last one holds exactly the events in between, while another holds more
C21_Witness ==
    \E k \in DOMAIN delivered, j \in DOMAIN delivered :
        /\ k \notin ClientIds
        /\ Len(eventLog) >= 3
        /\ Events(delivered[k]) = <<eventLog[2]>>
        /\ Len(Events(delivered[j])) >= 2

\* C22: within one emit call the accepted event is first recorded (event
\* log, then chain summary), then passed to the callbacks registered at that
\* moment in their registration order, then dispatched to the trigger
\* handler of its type and after it to the checklist observer, the order of
\* their registration; and emit returns without waiting for what a handler
\* started: the handler frame it leaves behind has made no orchestrate call.
C22_EmitStep ==
    eventSeq' = eventSeq + 1 =>
        LET e == eventLog'[Len(eventLog')]
            n == Len(sseClients)
            m == Len(steps')
        IN /\ m >= n + 3
           /\ steps'[1] = Did("log", 0, e)
           /\ steps'[2] = Did("track", 0, e)
           /\ \A i \in 1..n : steps'[2 + i] = Did("client", sseClients[i].id, e)
           /\ steps'[m] = Did("observer", 0, e)
           /\ IF e.type \in TriggerTypes
              THEN /\ m >= n + 4
                   /\ steps'[n + 3] = Did("handler", 0, e)
                   /\ \A i \in (n + 4)..(m - 1) :
                         steps'[i].what = "client" /\ steps'[i].event # e.id
                   /\ Len(handlers') = Len(handlers) + 1
                   /\ handlers'[Len(handlers')].event = e
                   /\ handlers'[Len(handlers')].call = 0
              ELSE m = n + 3 /\ Len(handlers') = Len(handlers)
           /\ Len(calls') = Len(calls)
C22_EmitIsOrdered == [][C22_EmitStep]_vars

\* An emit that called two callbacks, then the trigger handler, then the
\* observer, and left the handler waiting for its imports
C22_Witness ==
    /\ Len(steps) = 6
    /\ steps[3].what = "client" /\ steps[4].what = "client"
    /\ steps[3].client < steps[4].client
    /\ steps[5].what = "handler"
    /\ steps[6].what = "observer"
    /\ handlers # <<>>
    /\ handlers[Len(handlers)].pc = "import"

\* C23: a trigger handler that fails, because its orchestrate call threw
\* after its retries or because its own body raised, has caught the failure
\* itself (it ends in its catch block, not as a rejected promise nobody
\* handles) and has emitted no downstream event; the event that triggered it
\* is in the log all the same.
FailedHandlers == {h \in 1..Len(handlers) : handlers[h].pc \in {"failed", "rejected"}}
C23_HandlerFailureContained ==
    \A h \in FailedHandlers :
        /\ handlers[h].pc = "failed"
        /\ Downstream(handlers[h].event) = {}
        /\ \E i \in 1..Len(eventLog) : eventLog[i] = handlers[h].event

\* C24: a checklist item assigned to agent X is completed exactly once, by
\* the first accepted event from X after the item was created, whose summary
\* becomes its result; later events from X leave the item as it is. Step by
\* step: an event from X completes the pending or in_progress items of X that
\* no event from X has reached before, and changes no item of X that an
\* earlier event from X has reached.
CreatedAt(item) == item.id \div 10
ReachedBefore(item) ==
    \E j \in 1..Len(eventLog) :
        /\ eventLog[j].source = item.assignedAgent
        /\ eventLog[j].timestamp > CreatedAt(item)
C24_EventStep ==
    eventSeq' = eventSeq + 1 =>
        LET e == eventLog'[Len(eventLog')] IN
        \A sid \in DOMAIN checklists : \A i \in 1..Len(checklists[sid]) :
            LET item == checklists[sid][i] IN
            item.assignedAgent = e.source =>
                IF ReachedBefore(item)
                THEN checklists'[sid][i] = item
                ELSE item.status \in {"pending", "in_progress"} =>
                        checklists'[sid][i] =
                            [item EXCEPT !.status = "completed", !.progress = 100,
                                         !.result = e.summary, !.completedAt = now]
C24_CompletedOnce == [][C24_EventStep]_vars

\* C25: when an event whose source X is in the alias table is accepted, in
\* every session every item assigned to X that is not completed yet becomes
\* completed with progress 100 and the event's summary as its result; the
\* items of other agents, the items of X already completed, and every item
\* when the source is not in the alias table, stay as they are.
C25_ObserverStep ==
    eventSeq' = eventSeq + 1 =>
        LET e == eventLog'[Len(eventLog')] IN
        /\ DOMAIN checklists' = DOMAIN checklists
        /\ \A sid \in DOMAIN checklists :
              /\ Len(checklists'[sid]) = Len(checklists[sid])
              /\ \A i \in 1..Len(checklists[sid]) :
                    LET item == checklists[sid][i] IN
                    IF /\ e.source \in AGENT_TO_CHECKLIST
                       /\ item.assignedAgent = e.source
                       /\ item.status # "completed"
                    THEN checklists'[sid][i] =
                            [item EXCEPT !.status = "completed", !.progress = 100,
                                         !.result = e.summary, !.completedAt = now]
                    ELSE checklists'[sid][i] = item
C25_ObserverCompletesItems == [][C25_ObserverStep]_vars

\* Two sessions whose freedom item took the summary of the newest event,
\* the one of them in_progress before, while their letter items are untouched
C25_Witness ==
    /\ eventLog # <<>>
    /\ eventLog[Len(eventLog)].source = "freedom"
    /\ \E s1 \in DOMAIN checklists, s2 \in DOMAIN checklists :
          /\ s1 # s2
          /\ \A s \in {s1, s2} : \A i \in 1..Len(checklists[s]) :
                /\ checklists[s][i].assignedAgent = "freedom" =>
                      /\ checklists[s][i].status = "completed"
                      /\ checklists[s][i].progress = 100
                      /\ checklists[s][i].result = eventLog[Len(eventLog)].summary
                /\ checklists[s][i].assignedAgent = "letter" =>
                      checklists[s][i].status = "pending"
          /\ \E i \in 1..Len(checklists[s1]) :
                checklists[s1][i].assignedAgent = "freedom" /\ checklists[s1][i].startedAt > 0

\* C27: a checklist item is never deleted: whatever happens (createChecklist,
\* updateChecklistItem, orchestrate calls, bus events), every item a session
\* holds is still in that session's checklist afterwards, with the same id,
\* task and agent; only its mutable fields may differ.
C27_ItemsKeptStep ==
    \A sid \in DOMAIN checklists :
        /\ sid \in DOMAIN checklists'
        /\ \A i \in 1..Len(checklists[sid]) :
              \E j \in 1..Len(checklists'[sid]) :
                  /\ checklists'[sid][j].id = checklists[sid][i].id
                  /\ checklists'[sid][j].assignedAgent = checklists[sid][i].assignedAgent
C27_ItemsNeverDeleted == [][C27_ItemsKeptStep]_vars

\* C28: a PATCH of a checklist item is a partial mutation: on the addressed
\* item the fields the request body supplies take the supplied values, every
\* field it does not supply keeps its value (the endpoint's own startedAt and
\* completedAt stamps aside), and every other item is unchanged; an unknown
\* session id or item id is answered not-found and changes no checklist.
PatchFields == {"status", "progress", "result", "decision"}
C28_PatchStep ==
    Len(patched') = Len(patched) + 1 =>
        LET p == patched'[Len(patched')]
            known == /\ p.sessionId \in DOMAIN checklists
                     /\ \E i \in 1..Len(checklists[p.sessionId]) :
                           checklists[p.sessionId][i].id = p.itemId
        IN /\ p.found = known
           /\ ~known => checklists' = checklists
           /\ known =>
                 /\ DOMAIN checklists' = DOMAIN checklists
                 /\ \A sid \in DOMAIN checklists : \A i \in 1..Len(checklists[sid]) :
                       LET item == checklists[sid][i]
                           after == checklists'[sid][i]
                       IN IF sid = p.sessionId /\ item.id = p.itemId
                          THEN /\ \A f \in PatchFields :
                                     after[f] = IF f \in DOMAIN p.body THEN p.body[f]
                                                ELSE item[f]
                               /\ after.id = item.id
                               /\ after.assignedAgent = item.assignedAgent
                          ELSE after = item
C28_PatchIsPartial == [][C28_PatchStep]_vars

\* C29: the call log never holds more than 100 entries; the end of a call
\* appends that call's CallLog at the end, evicting the oldest entry when
\* the log is full, so the log is the most recently completed calls in
\* completion order; and no other step changes the log or an entry in it.
C29_LogStep ==
    /\ Len(callLog') <= MAX_LOG_SIZE
    /\ IF totalCalls' = totalCalls + 1
       THEN \E c \in 1..Len(calls) :
               /\ ~IsDone(calls[c]) /\ IsDone(calls'[c])
               /\ callLog' = Append(IF Len(callLog) = MAX_LOG_SIZE THEN Tail(callLog)
                                    ELSE callLog,
                                    calls'[c].log)
       ELSE callLog' = callLog
C29_LogIsBoundedRing == [][C29_LogStep]_vars

\* A full log that has lost its oldest entry and ends with two calls in the
\* order they ended, the one that started later first
C29_Witness ==
    /\ Len(callLog) = MAX_LOG_SIZE
    /\ callLog[1] = PastLog(2)
    /\ callLog[MAX_LOG_SIZE - 1].id > callLog[MAX_LOG_SIZE].id
    /\ callLog[MAX_LOG_SIZE].id > 0
    /\ callLog[MAX_LOG_SIZE - 1].timestamp < callLog[MAX_LOG_SIZE].timestamp

\* C30: the event log never holds more than 200 events; an accepted emission
\* appends its event at the end, evicting the oldest when the log is full,
\* so the log is the most recently accepted events in emission order; a
\* rejected emission and a chain summary (depth -1) never enter it.
C30_EventLogStep ==
    /\ Len(eventLog') <= MAX_EVENT_LOG
    /\ \A i \in 1..Len(eventLog') :
          /\ eventLog'[i].id = eventSeq' - Len(eventLog') + i
          /\ eventLog'[i].depth \in 0..MAX_CHAIN_DEPTH
    /\ IF eventSeq' = eventSeq + 1
       THEN eventLog' = Append(IF Len(eventLog) = MAX_EVENT_LOG THEN Tail(eventLog)
                               ELSE eventLog,
                               eventLog'[Len(eventLog')])
       ELSE eventLog' = eventLog
C30_EventLogIsBoundedRing == [][C30_EventLogStep]_vars

\* A full event log that has lost its oldest event, after a chain summary
\* went to a subscriber and the last emission was rejected
C30_Witness ==
    /\ Len(eventLog) = MAX_EVENT_LOG
    /\ eventLog[1] = PastEvent(2)
    /\ lastCall.op = "emit" /\ ~lastCall.ok
    /\ \E k \in DOMAIN delivered : \E n \in 1..Len(delivered[k]) :
          delivered[k][n].depth = -1

\* Everything a value of the bus holds but the checklists
Rest(B) == [f \in DOMAIN B \ {"checklists"} |-> B[f]]
\* The bus as it is now, had the checklists been the given ones
WithLists(lists) == [Bus EXCEPT !.checklists = lists]
\* Checklists the same run could have had instead: none, and one session's
\* list that nothing has touched yet
OtherLists == {<<>>, [s \in {1} |-> createChecklist(BORROWER_TASKS)]}
\* The orchestrator's state: health, counters, call log, and the calls
OrchRest == <<agents, totalCalls, totalCorrections, callLog, calls>>

\* C26: the checklist is a pure side-observer. Two runs of the same calls and
\* emissions with the same outcomes, one with checklists (whatever they hold)
\* and one without, agree step by step on everything but the checklists:
\* every step leaves the bus (event log, chains, subscribers, deliveries,
\* handlers) and the orchestrator (calls, call log, health, counters) exactly
\* as the same operation with the same arguments leaves them when the
\* checklists are empty or are other ones, and an operation on the
\* checklists alone leaves them as they were.
C26_Step ==
    \/ \* POST /checklist, PATCH /checklist: nothing but the checklists
       /\ created' # created \/ patched' # patched
       /\ Rest(Bus)' = Rest(Bus)
       /\ OrchRest' = OrchRest
    \/ \* orchestrate up to its first await, called by a controller or by
       \* a trigger handler: the frame depends on the arguments only
       /\ Len(calls') = Len(calls) + 1
       /\ SubSeq(calls', 1, Len(calls)) = calls
       /\ LET f == calls'[Len(calls')]
          IN /\ f = NewCall(f.agent, f.maxRetries, f.retryFn, f.projector,
                            f.skipQualityCheck, f.by)
             /\ IF f.by = 0 THEN handlers' = handlers
                ELSE /\ f.by \in 1..Len(handlers)
                     /\ f.agent = HandlerAgent(handlers[f.by].type)
                     /\ handlers' = [handlers EXCEPT ![f.by].pc = "call",
                                                     ![f.by].call = Len(calls')]
       /\ UNCHANGED <<agents, totalCalls, totalCorrections, callLog, eventLog, chains,
                      sseClients, delivered, eventSeq, threw, steps>>
    \/ \* emitAgentEvent by a controller
       /\ emits' = emits + 1
       /\ OrchRest' = OrchRest
       /\ \E type \in BusEventTypes, durationMs \in EventDurations,
             failing \in SUBSET ClientIds :
             \E source \in {NaturalSource(type), "simulator"},
                payload \in PayloadsOf(type) :
                LET partial == [source |-> source, chainId |-> lastCall'.chainId,
                                depth |-> lastCall'.depth,
                                summary |-> "summary " \o ToString(emits + 1),
                                payload |-> payload, triggeredBy |-> 0,
                                durationMs |-> durationMs]
                    r == emit(Bus, type, partial, failing)
                IN /\ Rest(Bus)' = Rest(r.bus)
                   /\ lastCall'.ok = r.ok
                   /\ \A lists \in OtherLists :
                         LET o == emit(WithLists(lists), type, partial, failing)
                         IN Rest(o.bus) = Rest(r.bus) /\ o.ok = r.ok
    \/ \* the unit of work of a call returns or throws; the trigger
       \* handler that made the call goes on when the call has ended
       /\ Len(calls') = Len(calls)
       /\ \E c \in 1..Len(calls), outcome \in SystemOutcomes, dur \in Durations,
             failing \in SUBSET ClientIds :
             /\ calls[c].pc = "work"
             /\ LET r == OnWork(c, calls[c], outcome, dur)
                    log == IF IsDone(r.frame) THEN LogAppend(callLog, r.frame.log)
                           ELSE callLog
                IN /\ calls' = [calls EXCEPT ![c] = r.frame]
                   /\ callLog' = log
                   /\ totalCorrections' = totalCorrections + r.corrections
                   /\ totalCalls' = totalCalls + (IF IsDone(r.frame) THEN 1 ELSE 0)
                   /\ agents' = IF IsDone(r.frame)
                                THEN [agents EXCEPT ![r.frame.agent] =
                                         updateHealth(@, log, r.frame.log)]
                                ELSE agents
                   /\ IF IsDone(r.frame) /\ r.frame.by # 0
                      THEN LET B == HandlerContinues(Bus, r.frame.by, r.frame, failing)
                           IN /\ Rest(Bus)' = Rest(B)
                              /\ \A lists \in OtherLists :
                                    Rest(HandlerContinues(WithLists(lists), r.frame.by,
                                                          r.frame, failing)) = Rest(B)
                      ELSE Rest(Bus)' = Rest(Bus)
    \/ \* subscribe, unsubscribe: the checklists are not involved
       /\ sseClients' # sseClients
       /\ eventSeq' = eventSeq
       /\ checklists' = checklists
       /\ OrchRest' = OrchRest
C26_ChecklistIsSideObserver == [][C26_Step]_vars

\* A chain has run to its end (three events, two calls by handlers) past a
\* subscriber while a checklist was there, which has items the observer
\* completed and items left pending
C26_Witness ==
    /\ Len(eventLog) = 3
    /\ Len(callLog) = 2
    /\ \E k \in DOMAIN delivered : Len(delivered[k]) >= 3
    /\ \E sid \in DOMAIN checklists :
          /\ Cardinality({i \in 1..Len(checklists[sid]) :
                             checklists[sid][i].status = "completed"}) = 3
          /\ \E i \in 1..Len(checklists[sid]) : checklists[sid][i].status = "pending"

\* The correction a verdict gives rise to
FixOf(quality) ==
    IF Truthy(quality.suggestedFix) THEN quality.suggestedFix
    ELSE "Retry with stricter validation"

\* C34: on every attempt after the first of a call that was given a retryFn,
\* orchestrate invokes retryFn, never agentFn, with the correction the
\* attempt before it recorded: 'Auto-retry after error: <message>' after a
\* thrown error, the verdict's suggestedFix (a fixed text when it has none)
\* after a critical verdict; the CallLog's correctionApplied is the last
\* correction recorded.
C34_AttemptStep ==
    \A c \in 1..Len(calls) :
       LET f == calls[c]
           g == calls'[c]
           inv == g.trace[Len(g.trace)]
       IN /\ (g.attempt # f.attempt) =>
                /\ g.attempt = f.attempt + 1
                /\ Len(g.trace) = Len(f.trace) + 1
                /\ inv.attempt = g.attempt
                /\ f.retryFn =>
                      /\ inv.fn = "retryFn"
                      /\ inv.arg = g.correctionApplied
                      /\ \A k \in 1..Len(g.trace) :
                            g.trace[k].fn = "agentFn" <=> k = 1
                /\ IF f.pc = "work"
                   THEN LET o == g.outcomes[Len(g.outcomes)]
                        IN /\ Len(g.outcomes) = Len(f.outcomes) + 1
                           /\ g.correctionApplied =
                                 "Auto-retry after error: "
                                 \o (IF o.kind = "throw" THEN ErrorText(o)
                                     ELSE ProjectionError(f.projector))
                   ELSE \E j \in JudgeOutcomes :
                           LET q == evaluateQuality(j)
                           IN /\ \E d \in Durations :
                                    g = OnQuality(c, [f EXCEPT !.judge = j], q, d).frame
                              /\ IF q.isNull
                                 THEN g.correctionApplied = "Auto-retry after error: "
                                         \o "Cannot read properties of null (reading 'hasCriticalIssue')"
                                 ELSE /\ q.hasCriticalIssue
                                      /\ g.correctionApplied = FixOf(q)
          /\ (IsDone(g) /\ ~IsDone(f)) =>
                /\ g.log.correctionApplied = g.correctionApplied
                /\ g.correctionApplied = f.correctionApplied
                /\ (g.attempt > 0) = Truthy(g.log.correctionApplied)
                /\ (g.retryFn /\ g.attempt > 0) =>
                      g.log.correctionApplied = g.trace[Len(g.trace)].arg
C34_RetryGetsLastCorrection == [][C34_AttemptStep]_vars

\* A call with a retryFn that retried once after a thrown error and once
\* after a critical verdict with a suggested fix, and then ended
C34_Witness ==
    \E c \in 1..Len(calls) :
       /\ calls[c].retryFn
       /\ IsDone(calls[c])
       /\ Len(calls[c].trace) = 3
       /\ calls[c].trace[2].arg = "Auto-retry after error: e1"
       /\ calls[c].trace[3].arg = "be specific"
       /\ calls[c].log.correctionApplied = "be specific"

\* C35: a trigger handler that receives an event of depth 3 or more does no
\* work: it starts no orchestrated call, emits nothing and completes no
\* chain; so every emission by a handler is at depth 3 at most and the bus
\* accepts it.
C35_HandlerStep ==
    /\ \A h \in 1..Len(handlers') :
          LET ev == handlers'[h].event
          IN /\ ev.depth >= 3 =>
                   /\ handlers'[h].pc = "skipped"
                   /\ handlers'[h].call = 0
                   /\ \A c \in 1..Len(calls') : calls'[c].by # h
                   /\ \A i \in 1..Len(eventLog') : eventLog'[i].triggeredBy # ev.id
                   /\ h > Len(handlers) =>
                         /\ ev.chainId \in DOMAIN chains'
                         /\ ev.chainId \in DOMAIN chains =>
                               chains'[ev.chainId].status = chains[ev.chainId].status
                         /\ steps'[Len(steps') - 1] = Did("handler", 0, ev)
                         /\ steps'[Len(steps')] = Did("observer", 0, ev)
             /\ (h <= Len(handlers) /\ handlers[h].pc = "call"
                 /\ handlers'[h].pc = "done") =>
                   /\ eventSeq' = eventSeq + 1
                   /\ LET e == eventLog'[Len(eventLog')]
                      IN /\ e.id = eventSeq'
                         /\ e.triggeredBy = ev.id
                         /\ e.depth = ev.depth + 1
                         /\ e.depth <= MAX_CHAIN_DEPTH
    /\ \A i \in 1..Len(eventLog') :
          eventLog'[i].triggeredBy # 0 => eventLog'[i].depth \in 1..MAX_CHAIN_DEPTH
C35_DeepEventsStartNoWork == [][C35_HandlerStep]_vars

\* A handler skipped the depth-3 event another handler had emitted, and a
\* handler skipped a depth-3 freedom:updated event whose chain stays running
C35_Witness ==
    /\ \E h \in 1..Len(handlers) :
          /\ handlers[h].pc = "skipped"
          /\ handlers[h].event.depth = MAX_CHAIN_DEPTH
          /\ handlers[h].event.triggeredBy # 0
          /\ handlers[h].event.type = "freedom:updated"
          /\ chains[handlers[h].event.chainId].status = "running"
    /\ \E h \in 1..Len(handlers) : handlers[h].pc = "done"

\* The sum of AgentHealth.totalCalls over a set of agents
RECURSIVE SumHealthCalls(_)
SumHealthCalls(S) ==
    IF S = {} THEN 0
    ELSE LET a == CHOOSE x \in S : TRUE
         IN agents[a].totalCalls + SumHealthCalls(S \ {a})

\* C36: whatever the interleaving of concurrent orchestrate calls at their
\* awaits, state.totalCalls is the sum of the agents' totalCalls and the
\* number of calls that have finished, agent by agent as well; and no call
\* is ever found between its log-append and its health update: every log
\* written is counted in its agent's record, whose lastCallAt is that of
\* the agent's newest log.
C36_TotalsAgree ==
    /\ totalCalls = SumHealthCalls(AGENT_NAMES)
    /\ totalCalls = Cardinality(Ended)
    /\ \A a \in AGENT_NAMES :
          LET logs == LogsOfAgent(a)
          IN /\ agents[a].totalCalls = Cardinality({c \in Ended : calls[c].agent = a})
             /\ agents[a].totalCalls = Len(logs)
             /\ logs # <<>> => agents[a].lastCallAt = logs[Len(logs)].timestamp

\* Two calls of one agent ran at the same time: the second to start ended
\* first, and the first, still running then, ended after it
C36_Witness ==
    /\ Len(callLog) = 2
    /\ callLog[1].id = 2 /\ callLog[2].id = 1
    /\ callLog[1].agent = callLog[2].agent
    /\ callLog[1].success /\ ~callLog[2].success
    /\ totalCalls = 2

\* The sum of retryCount over the CallLogs of a set of ended calls
RECURSIVE SumRetries(_)
SumRetries(S) ==
    IF S = {} THEN 0
    ELSE LET c == CHOOSE x \in S : TRUE
         IN calls[c].log.retryCount + SumRetries(S \ {c})
\* The retries made so far by a set of calls, ended or not
RECURSIVE SumRetryCounts(_)
SumRetryCounts(S) ==
    IF S = {} THEN 0
    ELSE LET c == CHOOSE x \in S : TRUE
         IN calls[c].retryCount + SumRetryCounts(S \ {c})

\* C37: state.totalCorrections never decreases; it is at least the sum of
\* retryCount over all CallLogs ever written and equals it whenever no call
\* is in flight; every retry, after a thrown error or after a critical
\* verdict, adds exactly 1, and nothing else changes it.
C37_CorrectionStep ==
    LET retried == {c \in 1..Len(calls) : calls'[c].attempt # calls[c].attempt}
    IN /\ totalCorrections' = totalCorrections + Cardinality(retried)
       /\ Cardinality(retried) <= 1
       /\ \A c \in retried : calls'[c].retryCount = calls[c].retryCount + 1
       /\ \A c \in (1..Len(calls)) \ retried : calls'[c].retryCount = calls[c].retryCount
C37_CorrectionsCountRetries ==
    /\ [](/\ totalCorrections >= SumRetries(Ended)
          /\ totalCorrections = SumRetryCounts(1..Len(calls))
          /\ Ended = 1..Len(calls) => totalCorrections = SumRetries(Ended))
    /\ [][C37_CorrectionStep]_vars

\* A call has ended after two retries, one after a thrown error and one
\* after a critical verdict, and no call is in flight
C37_Witness ==
    /\ Ended = 1..Len(calls)
    /\ totalCorrections = 2
    /\ \E c \in Ended :
          /\ calls[c].log.retryCount = 2
          /\ calls[c].outcomes[1].kind = "throw"
          /\ calls[c].outcomes[2].kind = "return"
          /\ calls[c].outcomes[3].kind = "return"
          /\ calls[c].trace[3].arg = "Retry with stricter validation"

\* C38: automatic transitions of a checklist item only move forward. A step
\* that starts an orchestrate call for agent X turns the pending items of X,
\* in every session, to in_progress with progress 30 and changes no other
\* item; a step in which an event is accepted changes only items that were
\* not completed, to completed; no step that is not a request on the
\* checklist API moves an item back from completed, or to failed, or adds or
\* removes an item; an item stays as it is when a call fails for good.
C38_AutoStep ==
    (created' = created /\ patched' = patched) =>
       /\ DOMAIN checklists' = DOMAIN checklists
       /\ \A sid \in DOMAIN checklists :
             /\ Len(checklists'[sid]) = Len(checklists[sid])
             /\ \A i \in 1..Len(checklists[sid]) :
                   LET old == checklists[sid][i]
                       new == checklists'[sid][i]
                       started == Len(calls') = Len(calls) + 1
                       X == calls'[Len(calls')].agent
                   IN /\ old.status = "completed" => new = old
                      /\ new.status = "failed" => new = old
                      /\ new.status = "pending" => new = old
                      /\ IF started
                         THEN new = IF old.assignedAgent = X /\ old.status = "pending"
                                    THEN [old EXCEPT !.status = "in_progress",
                                                     !.progress = 30, !.startedAt = now]
                                    ELSE old
                         ELSE new # old =>
                                 /\ eventSeq' = eventSeq + 1
                                 /\ old.assignedAgent = eventLog'[Len(eventLog')].source
                                 /\ new.status = "completed" /\ new.progress = 100
       /\ (\E c \in 1..Len(calls) : calls[c].pc # "thrown" /\ calls'[c].pc = "thrown")
             => checklists' = checklists
C38_AutomaticMovesForward == [][C38_AutoStep]_vars

\* In two sessions the watchdog item is still in_progress after every call
\* for the watchdog failed for good, and the letter item was completed by
\* an event
C38_Witness ==
    /\ Cardinality(DOMAIN checklists) = 2
    /\ \E c \in 1..Len(calls) : calls[c].agent = "watchdog" /\ calls[c].pc = "thrown"
    /\ \A c \in 1..Len(calls) : calls[c].agent = "watchdog" => calls[c].pc = "thrown"
    /\ \A sid \in DOMAIN checklists :
          \E i, j \in 1..Len(checklists[sid]) :
             /\ checklists[sid][i].assignedAgent = "watchdog"
             /\ checklists[sid][i].status = "in_progress"
             /\ checklists[sid][j].assignedAgent = "letter"
             /\ checklists[sid][j].status = "completed"

\* The event types whose chains the trigger handlers carry to completeChain
CompletingRoots ==
    {"vision:extracted", "watchdog:matched", "debate:verdict", "freedom:updated"}
\* Chain ch was started by a root event (depth 0) of one of those types
RootedChain(ch) ==
    /\ ch \in DOMAIN chains
    /\ chains[ch].events[1].depth = 0
    /\ chains[ch].events[1].type \in CompletingRoots
\* An orchestrated call made by a trigger handler has failed for good
HandlerCallFailed == \E c \in 1..Len(calls) : calls[c].by # 0 /\ calls[c].pc = "thrown"
ChainCompleted(ch) == ch \in DOMAIN chains /\ chains[ch].status = "completed"

\* C39: when the handler continuations are scheduled fairly, every chain
\* whose root event is of type vision:extracted, watchdog:matched,
\* debate:verdict or freedom:updated eventually has status completed, unless
\* an orchestrated call made by a trigger handler fails.
C39_RootedChainsComplete ==
    \A ch \in ChainIds :
       RootedChain(ch) ~> (ChainCompleted(ch) \/ HandlerCallFailed)

\* Chain ch is marked completed and its summary has reached a subscriber
SummaryDelivered(ch) ==
    /\ ch \in DOMAIN chains
    /\ chains[ch].status = "completed"
    /\ \E k \in DOMAIN delivered : \E n \in 1..Len(delivered[k]) :
          delivered[k][n].depth = -1 /\ delivered[k][n].chainId = ch
\* The trigger handlers of events of chain ch that have not finished
HandlersInFlight(ch) ==
    {h \in 1..Len(handlers) : /\ handlers[h].event.chainId = ch
                              /\ handlers[h].pc \in {"import", "call"}}

\* C31: completeChain(c) comes after all downstream handlers of chain c:
\* once chain c is completed and its summary delivered, no trigger handler
\* of an event of c is still waiting for its import or its orchestrated
\* call, and the bus accepts no further event with chainId c.
C31_CompletedStep ==
    \A ch \in DOMAIN chains :
       SummaryDelivered(ch) => chains'[ch].events = chains[ch].events
C31_CompleteChainComesLast ==
    /\ [](\A ch \in DOMAIN chains : SummaryDelivered(ch) => HandlersInFlight(ch) = {})
    /\ [][C31_CompletedStep]_vars

\* The events of the request's chain of a type
ChainEvents(type) ==
    IF RequestChain \in DOMAIN chains
    THEN {i \in 1..Len(chains[RequestChain].events) :
             chains[RequestChain].events[i].type = type}
    ELSE {}
\* The orchestrate calls made for an agent on behalf of the request: by
\* the request itself and by the handlers of the events of its chain
CallsFor(agentName) ==
    {c \in 1..Len(calls) :
        /\ calls[c].agent = agentName
        /\ calls[c].by # 0 => handlers[calls[c].by].event.chainId = RequestChain}

\* C32: during one vision-extract request the watchdog and freedom agents
\* are called by the controller only: no trigger handler orchestrates for
\* the request's chain, each of the two agents is orchestrated at most once,
\* and the chain holds at most one watchdog:matched event (exactly one once
\* the request is through) and at most one freedom:updated event.
C32_ControllerCallsOnly ==
    /\ \A c \in 1..Len(calls) : calls[c].by = 0
    /\ Cardinality(CallsFor("watchdog")) <= 1
    /\ Cardinality(CallsFor("freedom")) <= 1
    /\ Cardinality(ChainEvents("watchdog:matched")) <= 1
    /\ Cardinality(ChainEvents("freedom:updated")) <= 1
    /\ (RequestStage = 3 /\ completes = 1) =>
          Cardinality(ChainEvents("watchdog:matched")) = 1

\* What feed client k was sent: the backlog, then what its callback was
\* called with; and the accepted events among them (the chain summaries
\* completeChain sends are not events of the log)
Received(k) == replayed[k] \o delivered[k]
LogEventsOf(s) == SelectSeq(s, LAMBDA e : e.id > 0)
\* The steps of the feed: a connection replays the newest FEED_BACKLOG events
\* of the log (all of them when there are fewer) in the log's order, and a
\* client that has been unsubscribed is not called again
C33_FeedStep ==
    /\ Len(replayed') = Len(replayed) + 1 =>
          LET r == replayed'[Len(replayed')]
              n == IF Len(eventLog) < FEED_BACKLOG THEN Len(eventLog) ELSE FEED_BACKLOG
          IN /\ Len(r) = n
             /\ \A i \in 1..n : r[i] = eventLog[Len(eventLog) - n + i]
             /\ Len(replayed') \in {sseClients'[i].id : i \in 1..Len(sseClients')}
    /\ \A k \in 1..Len(delivered) :
          /\ replayed'[k] = replayed[k]
          /\ k \notin ClientIds => delivered'[k] = delivered[k]
          /\ (k \in ClientIds /\ eventSeq' # eventSeq) =>
                /\ Len(delivered'[k]) > Len(delivered[k])
                /\ \E i \in 1..Len(delivered'[k]) : delivered'[k][i].id = eventSeq'

\* C33: a client of the feed receives the last min(30, size of the log)
\* accepted events in the order of their emission, and then every event
\* accepted while it is subscribed, none lost and none twice between the
\* replay and the subscription; once unsubscribed, its callback is not
\* called again.
C33_FeedBacklogThenLive ==
    /\ [](\A k \in 1..Len(delivered) :
            LET R == LogEventsOf(Received(k))
            IN /\ \A i \in 1..Len(R) : \E j \in 1..Len(eventLog) : eventLog[j] = R[i]
               /\ \A i \in 1..(Len(R) - 1) : R[i + 1].id = R[i].id + 1
               /\ k \in ClientIds =>
                     IF eventLog = <<>> THEN R = <<>>
                     ELSE R # <<>> /\ R[Len(R)] = eventLog[Len(eventLog)])
    /\ [][C33_FeedStep]_vars
\* A client connected to a log longer than the backlog, received an event
\* live, disconnected, and an event was accepted after that
C33_Witness ==
    \E k \in 1..Len(delivered) :
       /\ Len(replayed[k]) = FEED_BACKLOG
       /\ replayed[k][1].id > 1
       /\ LogEventsOf(delivered[k]) # <<>>
       /\ k \notin ClientIds
       /\ eventSeq > delivered[k][Len(delivered[k])].id
       /\ delivered[k][Len(delivered[k])].id > 0

====
